---- MODULE Spec2Model ----
(***************************************************************************)
(* Model of the organizador-tarefas-ia repository.                         *)
(*                                                                         *)
(*  Spec      the process-wide ModuleRegistry (src/geral/module_registry)  *)
(*            driven by register, discover, load and the host page's       *)
(*            module-status refresh, one caller at a time.                 *)
(*  SpecConc  two callers running load_module line by line on the shared   *)
(*            registry.                                                    *)
(*  SpecTasks the task service (src/task_service.py) over the document     *)
(*            store (src/firebase_service.py).                             *)
(*  SpecHome  the home page (src/home.py): plans as numbered text, made     *)
(*            into tasks by create_tasks_from_plan.                        *)
(*  SpecPlan  the module pages: JSON plans, the two                        *)
(*            criar_tarefas_do_plano and the planning tab.                 *)
(*  SpecHistory  HistoryService (src/geral/history_service.py).            *)
(*  SpecEvents   the task events and plans histories of the module pages.  *)
(*  SpecQuery    get_history over stores of up to MaxStored entries.       *)
(*  SpecStore    the two local stores (LocalStorageService and the offline *)
(*               TaskStorageService) with their documents as objects.      *)
(*  SpecExtract  the planning page (src/planning.py) over plan texts.      *)
(*  SpecGen      the model calls of a text-generation request.             *)
(***************************************************************************)
EXTENDS Integers, Sequences, FiniteSets, TLC

VARIABLES
    modules,      \* ModuleRegistry.modules: name -> ModuleInfo
    last,         \* what the last registry operation was and returned
    threads,      \* SpecConc: each caller's load_module call stack
    importCount,  \* SpecConc: how often lines 170-180 ran for each module
    storage,      \* the "todos" collection: document id -> field map
    is_offline_mode, \* FirebaseService.is_offline_mode
    nextId,       \* number of document ids handed out so far
    lastTask,     \* what the last task-service operation was and returned
    session_state,     \* st.session_state: the keys the plan and history
                       \* code reads and writes
    collections,       \* the history collections of the document store:
                       \* collection name -> (document id -> field map)
    firebase,          \* HistoryService.firebase is set (not None)
    firestore_service, \* the components' firestore_service: "none" when
                       \* its import failed, "offline" an object whose
                       \* .firebase is None, "firebase" one with a store
    lastPlan,     \* what the last plan handler did and returned
    lastHist,     \* what the last history operation was and returned
    heap,         \* SpecStore: the dicts and lists the local stores and
                  \* their caller hold, by address
    fetched,      \* SpecStore: the addresses the caller's last read returned
    lastGen       \* what the last planning or generation request did

vars == <<modules, last, threads, importCount, storage, is_offline_mode,
          nextId, lastTask, session_state, collections, firebase,
          firestore_service, lastPlan, lastHist, heap, fetched, lastGen>>

registryVars == <<modules, last>>
concVars == <<threads, importCount>>
taskVars == <<storage, is_offline_mode, nextId, lastTask>>
pageVars == <<session_state, collections, firebase, firestore_service,
              lastPlan, lastHist>>
auxVars == <<heap, fetched, lastGen>>

----------------------------------------------------------------------------
(* Bounds *)

\* Longest dependency list a registration carries.
MaxDeps == 2

\* Frames of load_module the interpreter allows before RecursionError
\* (sys.getrecursionlimit() in the program; any acyclic chain over Names
\* needs at most Cardinality(Names) frames).
RecursionLimit == 4

\* Document ids the store hands out in a run.
MaxDocs == 3

\* Longest subtask list add_task_with_subtasks is given.
MaxSubtasks == 2

\* Objects SpecStore allocates in a run.
MaxObjects == 8

\* Documents each local store of SpecStore holds.
MaxTasks == 2

----------------------------------------------------------------------------
(* The registry's universe *)

\* Module names: the bootstrap module and two sub-module directories.
Names == {"geral", "tarefas", "historico_tarefas"}

\* None, for a module handle or a component.
None == <<>>

\* ModuleInfo.path: the bootstrap registration points at the central
\* package, a discovered one at servicos_modularizados/<item>.
GeralPath == <<"geral">>

ServicesPath(item) == <<"servicos_modularizados", item>>

\* MODULE_PORTS restricted to Names (the extra port 8511 that line 264
\* probes belongs to plano_tarefas, which is outside Names).
MODULE_PORTS == [geral |-> 8510, historico_tarefas |-> 8513]

Ports == {MODULE_PORTS[n] : n \in DOMAIN MODULE_PORTS}

\* load_module's import path (lines 163-168): parent_dir.module_name for a
\* path under servicos_modularizados, the bare name otherwise.
ImportPathOf(path, module_name) ==
    IF path[1] = "servicos_modularizados"
    THEN <<path[1], module_name>>
    ELSE <<module_name>>

\* Attributes of each importable package's namespace.
Namespace(import_path) ==
    IF import_path = <<"geral">>
        THEN {"orquestrador", "add_log", "module_registry"}
    ELSE IF import_path = <<"servicos_modularizados", "geral">>
        THEN {"add_log", "app_logger"}
    ELSE IF import_path = <<"servicos_modularizados", "tarefas">>
        THEN {"tasks_ui", "exibir_tarefa", "components"}
    ELSE IF import_path = <<"servicos_modularizados", "historico_tarefas">>
        THEN {"record_task_event", "components"}
    ELSE {}

\* hasattr(module_instance, "__all__")
HasAll(import_path) ==
    import_path \in {<<"geral">>, <<"servicos_modularizados", "tarefas">>}

\* module_instance.__all__
DeclaredAll(import_path) ==
    IF import_path = <<"geral">> THEN {"orquestrador", "add_log"}
    ELSE IF import_path = <<"servicos_modularizados", "tarefas">>
        THEN {"tasks_ui", "exibir_tarefa"}
    ELSE {}

Components == Namespace(GeralPath) \cup
              UNION {Namespace(ServicesPath(n)) : n \in Names}

\* The handle importlib returns for an import path, and the object behind
\* an attribute of it.
ModuleHandle(import_path) == <<"module">> \o import_path

ComponentHandle(import_path, c) == <<"component">> \o import_path \o <<c>>

----------------------------------------------------------------------------
(* ModuleInfo *)

\* ModuleInfo(name, path, description, version, dependencies) as the
\* dataclass builds it: not loaded, no instance, no exported components.
ModuleInfo(name, path, version, dependencies) ==
    [name |-> name, path |-> path, version |-> version,
     dependencies |-> dependencies, is_loaded |-> FALSE,
     module_instance |-> None, exported_components |-> <<>>]

IsInjective(s) == \A i, j \in DOMAIN s : s[i] = s[j] => i = j

\* Dependency lists a registration of name may carry: other modules' names,
\* each at most once.
DepListsFor(name) ==
    {s \in UNION {[1..k -> Names \ {name}] : k \in 0..MaxDeps} : IsInjective(s)}

\* The registration initialize_registry makes for the central module.
GeralInfo == ModuleInfo("geral", GeralPath, "1.0.0", <<>>)

\* The registration discover_modules makes for a directory item.
DiscoveredInfo(item) == ModuleInfo(item, ServicesPath(item), "0.1.0", <<>>)

\* Registrations a caller of register_module may pass for name.
ModuleInfosFor(name) ==
    {ModuleInfo(name, ServicesPath(name), "0.1.0", d) : d \in DepListsFor(name)}
    \cup (IF name = "geral" THEN {GeralInfo} ELSE {})

----------------------------------------------------------------------------
(* Operations of ModuleRegistry, as functions of the registry *)

\* self.modules[key] = value
DictSet(d, key, value) ==
    [k \in DOMAIN d \cup {key} |-> IF k = key THEN value ELSE d[k]]

register_module_DropsOthers(mods, module_info) ==
    [k \in {module_info.name} |-> module_info]

\* register_module: insert or overwrite, always True.
register_module(mods, module_info) == DictSet(mods, module_info.name, module_info)

RECURSIVE RegisterAll(_, _)
\* discover_modules' loop over the directory listing.
RegisterAll(mods, items) ==
    IF items = {} THEN mods
    ELSE LET item == CHOOSE i \in items : TRUE
         IN RegisterAll(register_module(mods, DiscoveredInfo(item)), items \ {item})

\* discover_modules: every directory item with an __init__.py is registered.
discover_modules(mods, found) == RegisterAll(mods, found)

\* Lines 136-138: the name is not in self.modules.
NotRegistered(mods, module_name) == module_name \notin DOMAIN mods

\* Lines 137-138: the error is logged and False returned.
OnNotRegistered_ReturnsTrue(mods, module_name) ==
    [res |-> "true", mods |-> mods,
     log |-> <<<<"not_registered", module_name>>>>]

OnNotRegistered(mods, module_name) ==
    [res |-> "false", mods |-> mods,
     log |-> <<<<"not_registered", module_name>>>>]

AlreadyLoaded_Never(mods, module_name) == FALSE

\* Lines 140-143: the module is already loaded.
AlreadyLoaded(mods, module_name) == mods[module_name].is_loaded

\* Line 152: the dependency has to be loaded first.
DepNeedsLoad(mods, dep) == dep \notin DOMAIN mods \/ ~mods[dep].is_loaded

ExtractExported_WholeNamespace(import_path) ==
    [c \in Namespace(import_path) |-> <<"component">> \o import_path \o <<c>>]

\* Lines 174-178: the components named in __all__ that the namespace has.
\* __all__ is a list of attribute names, as in every package of the
\* repository, so the loop itself does not raise.
ExtractExported(import_path) ==
    IF HasAll(import_path)
    THEN LET names == DeclaredAll(import_path) \cap Namespace(import_path)
         IN [c \in names |-> ComponentHandle(import_path, c)]
    ELSE <<>>

\* Lines 170-178: the imported module becomes the instance and its
\* exported components are collected.
SetInstanceAndExports(mods, module_name) ==
    LET info == mods[module_name]
        import_path == ImportPathOf(info.path, module_name)
        exported == ExtractExported(import_path)
    IN [mods EXCEPT ![module_name] =
            [info EXCEPT !.module_instance = ModuleHandle(import_path),
                         !.exported_components =
                             [c \in DOMAIN info.exported_components
                                       \cup DOMAIN exported |->
                                 IF c \in DOMAIN exported THEN exported[c]
                                 ELSE info.exported_components[c]]]]

\* Line 180: module_info.is_loaded = True.
SetLoaded(mods, module_name) == [mods EXCEPT ![module_name].is_loaded = TRUE]

\* Lines 170-182: a successful import sets the instance, the exported
\* components and is_loaded.
ImportSucceeded(mods, module_name) ==
    SetLoaded(SetInstanceAndExports(mods, module_name), module_name)

ImportFailed_LeavesLoaded(mods, module_name) ==
    [mods EXCEPT ![module_name].is_loaded = TRUE]

\* Lines 184-189: a failed import changes nothing.
ImportFailed(mods, module_name) == mods

AfterDepFailure_Ignored == "ok"

\* Lines 154-158: what load_module returns when a dependency's load
\* returned False.
AfterDepFailure == "false"

Ev(kind, name) == <<kind, name>>

RECURSIVE load_module(_, _, _, _)
RECURSIVE LoadDeps(_, _, _, _, _)

\* The loop of lines 150-158 from dependency i on.  Returns the registry,
\* the log and res: "ok" when every dependency is in, else what to return.
LoadDeps(mods, deps, i, depth, importable) ==
    IF i > Len(deps) THEN [res |-> "ok", mods |-> mods, log |-> <<>>]
    ELSE IF ~DepNeedsLoad(mods, deps[i])
        THEN LoadDeps(mods, deps, i + 1, depth, importable)
    ELSE LET r == load_module(mods, deps[i], depth + 1, importable)
         IN IF r.res = "raise" THEN r
            ELSE IF r.res = "false"
                THEN [res |-> AfterDepFailure, mods |-> r.mods, log |-> r.log]
            ELSE LET rest == LoadDeps(r.mods, deps, i + 1, depth, importable)
                 IN [rest EXCEPT !.log = r.log \o rest.log]

\* load_module(module_name) entered as frame number depth, with the set of
\* modules whose import succeeds during this call.  res is "true", "false",
\* or "raise" when the interpreter's frame limit is hit (RecursionError is
\* raised at line 153, outside the try of line 161, so it reaches the
\* caller).
load_module(mods, module_name, depth, importable) ==
    IF depth > RecursionLimit
        THEN [res |-> "raise", mods |-> mods,
              log |-> <<Ev("recursion_error", module_name)>>]
    ELSE IF NotRegistered(mods, module_name)
        THEN OnNotRegistered(mods, module_name)
    ELSE IF AlreadyLoaded(mods, module_name)
        THEN [res |-> "true", mods |-> mods,
              log |-> <<Ev("already_loaded", module_name)>>]
    ELSE LET d == LoadDeps(mods, mods[module_name].dependencies, 1, depth,
                           importable)
         IN IF d.res # "ok" THEN d
            ELSE IF module_name \in importable
                THEN [res |-> "true",
                      mods |-> ImportSucceeded(d.mods, module_name),
                      log |-> d.log \o <<Ev("import_ok", module_name)>>]
            ELSE [res |-> "false",
                  mods |-> ImportFailed(d.mods, module_name),
                  log |-> d.log \o <<Ev("import_failed", module_name)>>]

\* get_component: None unless the module is registered and loaded, else
\* exported_components.get(component_name).
get_component(mods, module_name, component_name) ==
    IF module_name \notin DOMAIN mods THEN None
    ELSE IF ~mods[module_name].is_loaded THEN None
    ELSE IF component_name \in DOMAIN mods[module_name].exported_components
        THEN mods[module_name].exported_components[component_name]
    ELSE None

\* list_available_modules
list_available_modules(mods) == DOMAIN mods

\* list_loaded_modules
list_loaded_modules(mods) == {n \in DOMAIN mods : mods[n].is_loaded}

\* One entry of update_module_status' loop (lines 260-275): a registered,
\* not loaded module whose port answers is marked loaded, and load_module
\* is called when it has no instance.
UpdateOne(mods, module_name, inUse, importable) ==
    IF module_name \in DOMAIN mods /\ ~mods[module_name].is_loaded
       /\ MODULE_PORTS[module_name] \in inUse
    THEN LET marked == [mods EXCEPT ![module_name].is_loaded = TRUE]
         IN IF marked[module_name].module_instance = None
            THEN load_module(marked, module_name, 1, importable).mods
            ELSE marked
    ELSE mods

\* The order in which update_module_status walks MODULE_PORTS.
ModulePortsOrder == <<"historico_tarefas", "geral">>

RECURSIVE UpdateFrom(_, _, _, _)
\* update_module_status from entry i of MODULE_PORTS on.
UpdateFrom(mods, i, inUse, importable) ==
    IF i > Len(ModulePortsOrder) THEN mods
    ELSE UpdateFrom(UpdateOne(mods, ModulePortsOrder[i], inUse, importable),
                    i + 1, inUse, importable)

update_module_status(mods, inUse, importable) ==
    UpdateFrom(mods, 1, inUse, importable)

\* initialize_registry (lines 259-281): register the central module,
\* discover the sub-module directories, load "geral"; the registry after
\* the three calls with the load's result and events.
initialize_registry(mods, found, importable) ==
    load_module(discover_modules(register_module(mods, GeralInfo), found),
                "geral", 1, importable)

----------------------------------------------------------------------------
(* Spec: the registry, one caller at a time *)

\* The last operation: its name, argument, result, the events of the load
\* it ran, the names it registered, and whether it is a load of a module
\* whose previous load ended in a failed import.
LastOp(op, name, res, log, registered, after_failure) ==
    [op |-> op, name |-> name, res |-> res, log |-> log,
     registered |-> registered, after_failure |-> after_failure]

InLog(log, e) == \E i \in DOMAIN log : log[i] = e

\* Position of event e in log, 0 when absent.
PosInLog(log, e) ==
    IF InLog(log, e) THEN CHOOSE i \in DOMAIN log : log[i] = e ELSE 0

InitRegistry ==
    /\ modules = <<>>
    /\ last = LastOp("init", "-", "none", <<>>, {}, FALSE)

InitConcIdle ==
    /\ threads = <<>>
    /\ importCount = <<>>

InitTasksIdle ==
    /\ storage = <<>>
    /\ is_offline_mode = TRUE
    /\ nextId = 0
    /\ lastTask = [op |-> "init", id |-> 0, res |-> FALSE]

\* st.session_state as home.init_session_state leaves it.
FreshSession == [plan_result |-> <<>>, tasks |-> <<>>]

\* The "historico", "tarefas_historico" and "planos_historico" collections,
\* empty.
EmptyCollections ==
    [historico |-> <<>>, tarefas_historico |-> <<>>, planos_historico |-> <<>>]

LastPlanOp(op, generated, n_tasks, res, attempted, stored, recorded) ==
    [op |-> op, generated |-> generated, n_tasks |-> n_tasks, res |-> res,
     attempted |-> attempted, stored |-> stored, recorded |-> recorded]

LastHistOp(op, res, limit, action_type, result, before) ==
    [op |-> op, res |-> res, limit |-> limit, action_type |-> action_type,
     result |-> result, before |-> before]

\* No object allocated, nothing read, no request made.
IdleGen == [op |-> "init"]

InitAuxIdle ==
    /\ heap = <<>>
    /\ fetched = <<>>
    /\ lastGen = IdleGen

InitPageIdle ==
    /\ session_state = FreshSession
    /\ collections = EmptyCollections
    /\ firebase = TRUE
    /\ firestore_service = "firebase"
    /\ lastPlan = LastPlanOp("init", FALSE, 0, "none", 0, 0, 0)
    /\ lastHist = LastHistOp("init", FALSE, 0, "", <<>>, 0)

Init ==
    InitRegistry /\ InitConcIdle /\ InitTasksIdle /\ InitPageIdle /\ InitAuxIdle

Register(name, module_info) ==
    /\ modules' = register_module(modules, module_info)
    /\ last' = LastOp("register", name, "true", <<>>, {name}, FALSE)
    /\ UNCHANGED <<concVars, taskVars, pageVars, auxVars>>

Discover(found) ==
    /\ modules' = discover_modules(modules, found)
    /\ last' = LastOp("discover", "-", "none", <<>>, found, FALSE)
    /\ UNCHANGED <<concVars, taskVars, pageVars, auxVars>>

Load(module_name, importable) ==
    LET r == load_module(modules, module_name, 1, importable)
    IN /\ modules' = r.mods
       /\ last' = LastOp("load", module_name, r.res, r.log, {},
                         /\ last.op = "load"
                         /\ last.name = module_name
                         /\ last.res = "false"
                         /\ InLog(last.log, Ev("import_failed", module_name)))
       /\ UNCHANGED <<concVars, taskVars, pageVars, auxVars>>

UpdateModuleStatus(inUse, importable) ==
    /\ modules' = update_module_status(modules, inUse, importable)
    /\ last' = LastOp("update_module_status", "-", "none", <<>>, {}, FALSE)
    /\ UNCHANGED <<concVars, taskVars, pageVars, auxVars>>

InitializeRegistry(found, importable) ==
    LET r == initialize_registry(modules, found, importable)
    IN /\ modules' = r.mods
       /\ last' = LastOp("initialize_registry", "geral", r.res, r.log,
                         found \cup {"geral"}, FALSE)
       /\ UNCHANGED <<concVars, taskVars, pageVars, auxVars>>

Next ==
    \/ \E name \in Names : \E info \in ModuleInfosFor(name) : Register(name, info)
    \/ \E found \in SUBSET Names : Discover(found)
    \/ \E name \in Names : \E importable \in SUBSET Names : Load(name, importable)
    \/ \E inUse \in SUBSET Ports : \E importable \in SUBSET Names :
           UpdateModuleStatus(inUse, importable)
    \/ \E found \in SUBSET Names : \E importable \in SUBSET Names :
           InitializeRegistry(found, importable)

Spec == Init /\ [][Next]_vars

----------------------------------------------------------------------------
(* Properties of the registry, checked under Spec *)

Registered(n) == n \in DOMAIN modules

Deps(mods, n) == {mods[n].dependencies[i] : i \in DOMAIN mods[n].dependencies}

RECURSIVE ReachFrom(_, _, _)
\* Names reachable from the names in todo along registered dependencies.
ReachFrom(mods, todo, seen) ==
    IF todo = {} THEN seen
    ELSE LET n == CHOOSE x \in todo : TRUE
             new == IF n \in DOMAIN mods THEN Deps(mods, n) \ (seen \cup {n})
                    ELSE {}
         IN ReachFrom(mods, (todo \ {n}) \cup new, seen \cup {n})

\* The transitive dependencies of n.
TransitiveDeps(mods, n) ==
    IF n \in DOMAIN mods THEN ReachFrom(mods, Deps(mods, n), {}) ELSE {}

NotLoadedIn(mods, n) == n \in DOMAIN mods => ~mods[n].is_loaded

\* C1: when X lists Y as a dependency and Y lists X, neither loaded,
\* load(X) returns a failure and afterwards neither X nor Y is loaded.
C1_CyclicLoadReturnsFailure ==
    [][\A x, y \in Names :
          (/\ x # y
           /\ x \in DOMAIN modules /\ y \in DOMAIN modules
           /\ y \in Deps(modules, x) /\ x \in Deps(modules, y)
           /\ ~modules[x].is_loaded /\ ~modules[y].is_loaded
           /\ last'.op = "load" /\ last'.name = x)
          => /\ last'.res = "false"
             /\ ~modules'[x].is_loaded
             /\ ~modules'[y].is_loaded]_vars

\* C2: get_component(m, c) is not None only when m is registered, m is
\* loaded and c is named in the __all__ of the package m was imported from.
C2_GetComponentOnlyExported ==
    \A m \in Names : \A c \in Components :
        get_component(modules, m, c) # None
        => /\ m \in DOMAIN modules
           /\ modules[m].is_loaded
           /\ HasAll(ImportPathOf(modules[m].path, m))
           /\ c \in DeclaredAll(ImportPathOf(modules[m].path, m))

\* A loaded module exposes an exported component while an attribute of its
\* namespace that is not in __all__ yields None.
C2_Witness ==
    \E m \in DOMAIN modules :
        LET ip == ImportPathOf(modules[m].path, m)
        IN /\ modules[m].is_loaded
           /\ modules[m].module_instance # None
           /\ \E c \in DeclaredAll(ip) : get_component(modules, m, c) # None
           /\ \E c \in Namespace(ip) \ DeclaredAll(ip) :
                 get_component(modules, m, c) = None

\* C3: load(a) with a and its transitive dependencies not loaded: a
\* dependency is imported before the module that lists it; when the load
\* returns true every transitive dependency is loaded; when a dependency is
\* not registered or its import fails the load returns false and a is left
\* not loaded, without instance and without exported components.
C3_DependencyOrderedLoad ==
    [][\A a \in DOMAIN modules :
          (/\ last'.op = "load" /\ last'.name = a
           /\ \A n \in {a} \cup TransitiveDeps(modules, a) :
                 NotLoadedIn(modules, n))
          => /\ \A n \in ({a} \cup TransitiveDeps(modules, a)) \cap DOMAIN modules :
                  \A d \in Deps(modules, n) :
                    InLog(last'.log, Ev("import_ok", n))
                    => /\ InLog(last'.log, Ev("import_ok", d))
                       /\ PosInLog(last'.log, Ev("import_ok", d))
                            < PosInLog(last'.log, Ev("import_ok", n))
             /\ last'.res = "true"
                  => \A n \in {a} \cup TransitiveDeps(modules, a) :
                        n \in DOMAIN modules' /\ modules'[n].is_loaded
             /\ (\E n \in TransitiveDeps(modules, a) \ {a} :
                    \/ InLog(last'.log, Ev("not_registered", n))
                    \/ InLog(last'.log, Ev("import_failed", n)))
                  => /\ last'.res = "false"
                     /\ ~modules'[a].is_loaded
                     /\ modules'[a].module_instance = None
                     /\ modules'[a].exported_components = <<>>]_vars

\* One load brought in a chain of three: the module, its dependency and
\* that dependency's dependency, innermost first.
C3_Witness ==
    /\ last.op = "load" /\ last.res = "true"
    /\ Len(last.log) = 3
    /\ \A i \in 1..3 : last.log[i][1] = "import_ok"
    /\ last.log[3][2] = last.name
    /\ last.log[2][2] \in Deps(modules, last.log[3][2])
    /\ last.log[1][2] \in Deps(modules, last.log[2][2])

\* C4: a module whose is_loaded flag is true has a module instance.
C4_LoadedHasInstance ==
    \A n \in DOMAIN modules :
        modules[n].is_loaded => modules[n].module_instance # None

LoadedByLoad(mods, n) ==
    n \in DOMAIN mods /\ mods[n].is_loaded /\ mods[n].module_instance # None

\* C5 as stated: a module load has loaded stays loaded, with its instance
\* and exported components, over every later register, discover and load,
\* and no registered name disappears.
C5_LoadedIsTerminal ==
    [][\A n \in DOMAIN modules :
          /\ n \in DOMAIN modules'
          /\ LoadedByLoad(modules, n) => modules'[n] = modules[n]]_vars

\* C5 amended: a module load has loaded stays loaded, with its instance and
\* exported components, until register or discover replaces the entry of
\* that same name; no registered name disappears.
C5_LoadedUntilReRegistered ==
    [][\A n \in DOMAIN modules :
          /\ n \in DOMAIN modules'
          /\ (LoadedByLoad(modules, n) /\ n \notin last'.registered)
               => modules'[n] = modules[n]]_vars

\* A loaded module is still loaded after a register or discover of other
\* names.
C5_Witness ==
    /\ last.op \in {"register", "discover"}
    /\ last.registered # {}
    /\ \E n \in DOMAIN modules \ last.registered : LoadedByLoad(modules, n)

\* C6: a load whose import of the module fails returns false and leaves the
\* module's entry as it was, registered and not loaded; the load that
\* follows attempts the import again and loads the module when the import
\* succeeds.
C6_FailedImportCanBeRetried ==
    [][last'.op = "load"
       => /\ InLog(last'.log, Ev("import_failed", last'.name))
               => /\ last'.res = "false"
                  /\ last'.name \in DOMAIN modules'
                  /\ ~modules'[last'.name].is_loaded
                  /\ modules'[last'.name] = modules[last'.name]
          /\ last'.after_failure
               => \/ /\ last'.log = <<Ev("import_ok", last'.name)>>
                     /\ last'.res = "true"
                     /\ LoadedByLoad(modules', last'.name)
                  \/ /\ last'.log = <<Ev("import_failed", last'.name)>>
                     /\ last'.res = "false"]_vars

\* A load succeeded right after a load of the same module failed at the
\* import.
C6_Witness ==
    /\ last.op = "load" /\ last.after_failure
    /\ last.res = "true"
    /\ LoadedByLoad(modules, last.name)

\* C7: load of a name that is not registered returns false and leaves the
\* registry as it was.
C7_LoadUnregisteredChangesNothing ==
    [][(last'.op = "load" /\ last'.name \notin DOMAIN modules)
       => /\ last'.res = "false"
          /\ modules' = modules]_vars

\* load was refused for an unknown name while other modules are registered.
C7_Witness ==
    /\ last.op = "load" /\ last.name \notin DOMAIN modules
    /\ last.res = "false"
    /\ DOMAIN modules # {}

\* C8: load of a module that is already loaded returns true, imports
\* nothing, loads no dependency and leaves the registry as it was.
C8_LoadOfLoadedIsNoOp ==
    [][(/\ last'.op = "load"
        /\ last'.name \in DOMAIN modules
        /\ modules[last'.name].is_loaded)
       => /\ last'.res = "true"
          /\ last'.log = <<Ev("already_loaded", last'.name)>>
          /\ modules' = modules]_vars

\* load returned at once for a loaded module one of whose dependencies is
\* not loaded.
C8_Witness ==
    /\ last.op = "load" /\ last.res = "true"
    /\ last.log = <<Ev("already_loaded", last.name)>>
    /\ LoadedByLoad(modules, last.name)
    /\ \E d \in Deps(modules, last.name) : d \notin DOMAIN modules \/ ~modules[d].is_loaded

\* C29: after initialize_registry, the entry under "geral" is the central
\* module's registration (its own path, version "1.0.0"), whatever
\* directories discovery found, and it is loaded (stated here for the runs
\* in which the import of "geral" did not fail).
C29_BootstrapSurvivesDiscovery ==
    last.op = "initialize_registry"
        => /\ "geral" \in DOMAIN modules
           /\ modules["geral"].path = GeralPath
           /\ modules["geral"].version = "1.0.0"
           /\ last.res = "true" => modules["geral"].is_loaded

----------------------------------------------------------------------------
(* SpecConc: two callers of load_module on the shared module_registry *)

Callers == {1, 2}

\* A frame of load_module: the module, the line the caller is at and the
\* index of the dependency the loop of line 151 is at.
Frame(module_name, pc, i) == [name |-> module_name, pc |-> pc, i |-> i]

Top(stack) == stack[Len(stack)]

Pop(stack) == SubSeq(stack, 1, Len(stack) - 1)

SetTop(stack, frame) == [stack EXCEPT ![Len(stack)] = frame]

RECURSIVE ReturnFrom(_, _)
\* The top frame returns v: the caller's frame at line 153 goes on with
\* the next dependency after True and returns False itself after False
\* (lines 154-158); an empty stack hands v to the caller of load.
ReturnFrom(stack, v) ==
    LET rest == Pop(stack)
    IN IF rest = <<>> THEN [stack |-> <<>>, res |-> v]
       ELSE IF v = "false" THEN ReturnFrom(rest, AfterDepFailure)
       ELSE [stack |-> SetTop(rest, Frame(Top(rest).name, "L151", Top(rest).i + 1)),
             res |-> "running"]

\* Registries that register calls alone produce: nothing loaded yet.
FreshRegistries ==
    UNION {{f \in [S -> UNION {ModuleInfosFor(n) : n \in S}] :
               \A n \in S : f[n] \in ModuleInfosFor(n)} : S \in SUBSET Names}

InitConc ==
    /\ modules \in FreshRegistries
    /\ last = LastOp("init", "-", "none", <<>>, {}, FALSE)
    /\ threads = [t \in Callers |-> [stack |-> <<>>, res |-> "idle"]]
    /\ importCount = [n \in Names |-> 0]
    /\ InitTasksIdle
    /\ InitPageIdle
    /\ InitAuxIdle

\* A caller invokes load_module(module_name).
CallLoad(t, module_name) ==
    /\ threads[t].res = "idle"
    /\ threads' = [threads EXCEPT ![t] =
          [stack |-> <<Frame(module_name, "L136", 1)>>, res |-> "running"]]
    /\ UNCHANGED <<modules, last, importCount, taskVars, pageVars, auxVars>>

\* Lines 136-143: not registered returns False, already loaded returns
\* True, otherwise on to the dependencies.
StepCheck(t) ==
    /\ threads[t].res = "running"
    /\ Top(threads[t].stack).pc = "L136"
    /\ LET stack == threads[t].stack
           name == Top(stack).name
       IN threads' = [threads EXCEPT ![t] =
            IF NotRegistered(modules, name)
                THEN ReturnFrom(stack, OnNotRegistered(modules, name).res)
            ELSE IF AlreadyLoaded(modules, name)
                THEN ReturnFrom(stack, "true")
            ELSE [stack |-> SetTop(stack, Frame(name, "L151", 1)),
                  res |-> "running"]]
    /\ UNCHANGED <<modules, last, importCount, taskVars, pageVars, auxVars>>

\* Lines 150-153: the next dependency is skipped when loaded, else
\* load_module is entered for it; past the frame limit the interpreter
\* raises RecursionError, which unwinds the whole call.
StepDeps(t) ==
    /\ threads[t].res = "running"
    /\ Top(threads[t].stack).pc = "L151"
    /\ LET stack == threads[t].stack
           f == Top(stack)
           deps == modules[f.name].dependencies
       IN threads' = [threads EXCEPT ![t] =
            IF f.i > Len(deps)
                THEN [stack |-> SetTop(stack, Frame(f.name, "L170", f.i)),
                      res |-> "running"]
            ELSE IF ~DepNeedsLoad(modules, deps[f.i])
                THEN [stack |-> SetTop(stack, Frame(f.name, "L151", f.i + 1)),
                      res |-> "running"]
            ELSE IF Len(stack) + 1 > RecursionLimit
                THEN [stack |-> <<>>, res |-> "raise"]
            ELSE [stack |-> Append(SetTop(stack, Frame(f.name, "L153", f.i)),
                                   Frame(deps[f.i], "L136", 1)),
                  res |-> "running"]]
    /\ UNCHANGED <<modules, last, importCount, taskVars, pageVars, auxVars>>

\* Lines 161-178 and 184-189: the import; when it succeeds the instance
\* and the exported components are stored, when it fails False is returned.
StepImport(t, ok) ==
    /\ threads[t].res = "running"
    /\ Top(threads[t].stack).pc = "L170"
    /\ LET stack == threads[t].stack
           name == Top(stack).name
       IN IF ok
          THEN /\ modules' = SetInstanceAndExports(modules, name)
               /\ importCount' = [importCount EXCEPT ![name] = @ + 1]
               /\ threads' = [threads EXCEPT ![t].stack =
                                 SetTop(stack, Frame(name, "L180", Top(stack).i))]
          ELSE /\ modules' = ImportFailed(modules, name)
               /\ importCount' = importCount
               /\ threads' = [threads EXCEPT ![t] = ReturnFrom(stack, "false")]
    /\ UNCHANGED <<last, taskVars, pageVars, auxVars>>

\* Lines 180-182: is_loaded is set and True returned.
StepSetLoaded(t) ==
    /\ threads[t].res = "running"
    /\ Top(threads[t].stack).pc = "L180"
    /\ modules' = SetLoaded(modules, Top(threads[t].stack).name)
    /\ threads' = [threads EXCEPT ![t] = ReturnFrom(threads[t].stack, "true")]
    /\ UNCHANGED <<last, importCount, taskVars, pageVars, auxVars>>

NextConc ==
    \/ \E t \in Callers : \E n \in Names : CallLoad(t, n)
    \/ \E t \in Callers : StepCheck(t)
    \/ \E t \in Callers : StepDeps(t)
    \/ \E t \in Callers : \E ok \in BOOLEAN : StepImport(t, ok)
    \/ \E t \in Callers : StepSetLoaded(t)

SpecConc == InitConc /\ [][NextConc]_vars

\* C9: with two callers of load on the shared registry, the import and
\* export-population step of a module runs at most once.
C9_ImportRunsAtMostOnce == \A n \in Names : importCount[n] <= 1

----------------------------------------------------------------------------
(* The document store: FirebaseService over Firestore or, in offline mode,
   over LocalStorageService.  storage is the content of the "todos"
   collection in either. *)

DocIds == 1..MaxDocs

\* del self.storage[collection_name][document_id]
DictDel(d, key) == [k \in DOMAIN d \ {key} |-> d[k]]

\* FirebaseService.get_documents: the ids of the collection's documents;
\* online, a failed read is caught and an empty list returned.
get_documents(store, offline, raises) ==
    IF ~offline /\ raises THEN {} ELSE DOMAIN store

\* FirebaseService.add_document: the new id, or None (0) when the online
\* write raises.  LocalStorageService.add_document always stores.
add_document(store, offline, doc_id, data, raises) ==
    IF ~offline /\ raises
    THEN [store |-> store, id |-> 0]
    ELSE [store |-> DictSet(store, doc_id, data), id |-> doc_id]

\* FirebaseService.delete_document: offline, False when the document is
\* not there, else it is removed; online, True unless the delete raises,
\* in which case the error is caught and False returned.
delete_document(store, offline, document_id, raises) ==
    IF offline
    THEN IF document_id \notin DOMAIN store
         THEN [store |-> store, res |-> FALSE]
         ELSE [store |-> DictDel(store, document_id), res |-> TRUE]
    ELSE IF raises
         THEN [store |-> store, res |-> FALSE]
         ELSE [store |-> DictDel(store, document_id), res |-> TRUE]

\* The loop of LocalStorageService.update_document (lines 82-83): the
\* named fields are overwritten, the others kept.
DictMerge(doc, data) ==
    [k \in DOMAIN doc \cup DOMAIN data |->
        IF k \in DOMAIN data THEN data[k] ELSE doc[k]]

\* FirebaseService.update_document: False when the document is not there
\* (offline by the test of line 78, online because Firestore's update
\* raises) or when the online write raises; else the fields are merged in.
update_document(store, offline, document_id, data, raises) ==
    IF document_id \notin DOMAIN store \/ (~offline /\ raises)
    THEN [store |-> store, res |-> FALSE]
    ELSE [store |-> [store EXCEPT ![document_id] = DictMerge(@, data)],
          res |-> TRUE]

\* FirebaseService.delete_task: delete_document on "todos", nothing else.
delete_task(store, offline, task_id, raises) ==
    delete_document(store, offline, task_id, raises)

----------------------------------------------------------------------------
(* TaskService *)

\* add_task's task_data.
TaskData == [title |-> "task", completed |-> FALSE]

\* add_task_with_subtasks' subtask_data for subtask number i.
SubtaskData(main_task_id, i) ==
    [title |-> "subtask", completed |-> FALSE, parent_id |-> main_task_id,
     order |-> i]

IsSubtaskOf(store, d, parent_id) ==
    "parent_id" \in DOMAIN store[d] /\ store[d].parent_id = parent_id

RECURSIVE SortByOrder(_, _)
\* subtasks.sort(key=order): ascending order, ties in stored order.
SortByOrder(store, ids) ==
    IF ids = {} THEN <<>>
    ELSE LET first == CHOOSE d \in ids : \A e \in ids :
                         \/ store[d].order < store[e].order
                         \/ store[d].order = store[e].order /\ d <= e
         IN <<first>> \o SortByOrder(store, ids \ {first})

\* get_subtasks: the documents whose parent_id is the given id, by order.
get_subtasks(store, offline, parent_id, raises) ==
    SortByOrder(store, {d \in get_documents(store, offline, raises) :
                            IsSubtaskOf(store, d, parent_id)})

RECURSIVE AddSubtasks(_, _, _, _, _, _)
\* The loop of lines 160-170 from subtask i on; the id add_document
\* returns is not looked at.
AddSubtasks(store, offline, main_task_id, i, n, failing) ==
    IF i >= n THEN store
    ELSE AddSubtasks(add_document(store, offline, main_task_id + 1 + i,
                                  SubtaskData(main_task_id, i),
                                  (i + 1) \in failing).store,
                     offline, main_task_id, i + 1, n, failing)

\* add_task_with_subtasks with n subtask titles; failing holds the numbers
\* of the add_document calls that raise online, 0 being the main task's.
add_task_with_subtasks(store, offline, new_id, n, failing) ==
    LET main == add_document(store, offline, new_id, TaskData, 0 \in failing)
    IN IF main.id = 0 THEN [store |-> store, res |-> FALSE]
       ELSE [store |-> AddSubtasks(main.store, offline, main.id, 0, n, failing),
             res |-> TRUE]

RECURSIVE DeleteEach(_, _, _, _, _)
\* The loop of lines 231-232: each subtask is deleted, the result of
\* delete_document is dropped.
DeleteEach(store, offline, subtasks, i, failing) ==
    IF i > Len(subtasks) THEN store
    ELSE DeleteEach(delete_document(store, offline, subtasks[i],
                                    subtasks[i] \in failing).store,
                    offline, subtasks, i + 1, failing)

\* delete_task_with_subtasks: the subtasks first, then the task itself,
\* whose delete decides the result.
delete_task_with_subtasks(store, offline, task_id, readRaises, failing) ==
    LET subtasks == get_subtasks(store, offline, task_id, readRaises)
        afterSubtasks == DeleteEach(store, offline, subtasks, 1, failing)
    IN delete_document(afterSubtasks, offline, task_id, task_id \in failing)

\* complete_task's update_data; the timestamp is the time of the call.
CompletedData == [completed |-> TRUE, completed_at |-> "now"]

RECURSIVE UpdateEach(_, _, _, _, _, _)
\* The loop of lines 210-211: each subtask is updated, the result of
\* update_document is dropped.
UpdateEach(store, offline, subtasks, i, data, failing) ==
    IF i > Len(subtasks) THEN store
    ELSE UpdateEach(update_document(store, offline, subtasks[i], data,
                                    subtasks[i] \in failing).store,
                    offline, subtasks, i + 1, data, failing)

\* complete_task: False when the id is not among the documents read; else
\* the document is updated and, for a main task, so are its subtasks; the
\* result is that of the first update.
complete_task(store, offline, task_id, readRaises, subReadRaises, failing) ==
    IF task_id \notin get_documents(store, offline, readRaises)
    THEN [store |-> store, res |-> FALSE]
    ELSE LET first == update_document(store, offline, task_id, CompletedData,
                                      task_id \in failing)
         IN IF "parent_id" \notin DOMAIN store[task_id]
            THEN [store |-> UpdateEach(first.store, offline,
                                       get_subtasks(first.store, offline,
                                                    task_id, subReadRaises),
                                       1, CompletedData, failing),
                  res |-> first.res]
            ELSE first

\* TaskService.update_task: update_document on the collection.
update_task(store, offline, task_id, update_data, raises) ==
    update_document(store, offline, task_id, update_data, raises)

\* The partial field maps callers pass to update_task.
UpdateDatas == {[completed |-> TRUE], [completed |-> FALSE]}

----------------------------------------------------------------------------
(* SpecTasks: the task service, one handler at a time *)

LastTaskOp(op, id, res) == [op |-> op, id |-> id, res |-> res]

InitTasks ==
    /\ storage = <<>>
    /\ is_offline_mode \in BOOLEAN
    /\ nextId = 0
    /\ lastTask = LastTaskOp("init", 0, FALSE)
    /\ InitRegistry
    /\ InitConcIdle
    /\ InitPageIdle
    /\ InitAuxIdle

\* Whether a call to the store can raise: only the online store does.
Raises == IF is_offline_mode THEN {FALSE} ELSE BOOLEAN

\* The documents an operation on task_id writes to: the task and the
\* subtasks stored under it.
Touched(task_id) ==
    {task_id} \cup {d \in DOMAIN storage : IsSubtaskOf(storage, d, task_id)}

\* The sets of those writes that raise.
Failing(task_id) == IF is_offline_mode THEN {{}} ELSE SUBSET Touched(task_id)

AddTaskWithSubtasks(n, failing) ==
    /\ nextId + 1 + n <= MaxDocs
    /\ failing \in (IF is_offline_mode THEN {{}} ELSE SUBSET (0..n))
    /\ LET r == add_task_with_subtasks(storage, is_offline_mode, nextId + 1,
                                       n, failing)
       IN /\ storage' = r.store
          /\ nextId' = nextId + 1 + n
          /\ lastTask' = LastTaskOp("add_task_with_subtasks",
                                    IF r.res THEN nextId + 1 ELSE 0, r.res)
    /\ UNCHANGED <<is_offline_mode, registryVars, concVars, pageVars, auxVars>>

DeleteTaskWithSubtasks(task_id, readRaises, failing) ==
    /\ readRaises \in Raises
    /\ failing \in Failing(task_id)
    /\ LET r == delete_task_with_subtasks(storage, is_offline_mode, task_id,
                                          readRaises, failing)
       IN /\ storage' = r.store
          /\ lastTask' = LastTaskOp("delete_task_with_subtasks", task_id, r.res)
    /\ UNCHANGED <<is_offline_mode, nextId, registryVars, concVars, pageVars,
            auxVars>>

CompleteTask(task_id, readRaises, subReadRaises, failing) ==
    /\ readRaises \in Raises
    /\ subReadRaises \in Raises
    /\ failing \in Failing(task_id)
    /\ LET r == complete_task(storage, is_offline_mode, task_id, readRaises,
                              subReadRaises, failing)
       IN /\ storage' = r.store
          /\ lastTask' = LastTaskOp("complete_task", task_id, r.res)
    /\ UNCHANGED <<is_offline_mode, nextId, registryVars, concVars, pageVars,
            auxVars>>

UpdateTask(task_id, update_data, raises) ==
    /\ raises \in Raises
    /\ LET r == update_task(storage, is_offline_mode, task_id, update_data,
                            raises)
       IN /\ storage' = r.store
          /\ lastTask' = LastTaskOp("update_task", task_id, r.res)
    /\ UNCHANGED <<is_offline_mode, nextId, registryVars, concVars, pageVars,
            auxVars>>

DeleteTask(task_id, raises) ==
    /\ raises \in Raises
    /\ LET r == delete_task(storage, is_offline_mode, task_id, raises)
       IN /\ storage' = r.store
          /\ lastTask' = LastTaskOp("delete_task", task_id, r.res)
    /\ UNCHANGED <<is_offline_mode, nextId, registryVars, concVars, pageVars,
            auxVars>>

NextTasks ==
    \/ \E n \in 0..MaxSubtasks : \E failing \in SUBSET (0..MaxSubtasks) :
           AddTaskWithSubtasks(n, failing)
    \/ \E task_id \in DocIds : \E readRaises \in BOOLEAN :
           \E failing \in SUBSET DocIds :
               DeleteTaskWithSubtasks(task_id, readRaises, failing)
    \/ \E task_id \in DocIds : \E readRaises, subReadRaises \in BOOLEAN :
           \E failing \in SUBSET DocIds :
               CompleteTask(task_id, readRaises, subReadRaises, failing)
    \/ \E task_id \in DocIds : \E update_data \in UpdateDatas :
           \E raises \in BOOLEAN : UpdateTask(task_id, update_data, raises)
    \/ \E task_id \in DocIds : \E raises \in BOOLEAN :
           DeleteTask(task_id, raises)

SpecTasks == InitTasks /\ [][NextTasks]_vars

\* C10: after delete_task_with_subtasks reports success, the task is gone
\* and no document whose parent is the deleted task remains, also when the
\* delete of a subtask failed.
C10_CascadeDeleteLeavesNoOrphan ==
    (lastTask.op = "delete_task_with_subtasks" /\ lastTask.res)
    => /\ lastTask.id \notin DOMAIN storage
       /\ \A d \in DOMAIN storage : ~IsSubtaskOf(storage, d, lastTask.id)

\* C11: every stored subtask has a parent task that is still stored.
C11_NoOrphanSubtask ==
    \A d \in DOMAIN storage :
        "parent_id" \in DOMAIN storage[d]
        => /\ storage[d].parent_id \in DOMAIN storage
           /\ "parent_id" \notin DOMAIN storage[storage[d].parent_id]

\* C30: complete_task on a stored main task that returns true leaves the
\* task and each of its subtasks completed; on a subtask it changes that
\* subtask only; on an id that is not stored it returns false and changes
\* no document.
C30_CompleteTaskCascades ==
    [][lastTask'.op = "complete_task"
          => LET task_id == lastTask'.id
             IN IF task_id \notin DOMAIN storage
                THEN ~lastTask'.res /\ storage' = storage
                ELSE IF "parent_id" \in DOMAIN storage[task_id]
                THEN \A d \in DOMAIN storage \ {task_id} :
                         d \in DOMAIN storage' /\ storage'[d] = storage[d]
                ELSE lastTask'.res
                         => /\ storage'[task_id].completed
                            /\ \A d \in DOMAIN storage' :
                                   IsSubtaskOf(storage', d, task_id)
                                       => storage'[d].completed]_vars

----------------------------------------------------------------------------
(* Timestamps: datetime.now().isoformat() and the order Python's string
   comparison gives them *)

\* Latest second and microsecond the clock shows in a run.
MaxSecond == 1
MaxMicro == 1

\* Readings of datetime.now(): <<second, microsecond>>.  The wall clock is
\* not monotonic, so a later call can read an earlier time.
Times == (0..MaxSecond) \X (0..MaxMicro)

\* ord() of a decimal digit; ord(".") is 46.
Digit(d) == 48 + d

\* datetime.isoformat(): the microseconds are left out when they are 0.
isoformat(t) ==
    IF t[2] = 0 THEN <<Digit(t[1])>> ELSE <<Digit(t[1]), 46, Digit(t[2])>>

RECURSIVE StrLess(_, _)
\* a < b on Python strings: code point by code point, a proper prefix
\* being the smaller.
StrLess(a, b) ==
    IF a = <<>> THEN b # <<>>
    ELSE IF b = <<>> THEN FALSE
    ELSE IF Head(a) # Head(b) THEN Head(a) < Head(b)
    ELSE StrLess(Tail(a), Tail(b))

\* key=lambda x: x.get(field, "")
SortKey(x, field) == IF field \in DOMAIN x THEN x[field] ELSE <<>>

InsertDescending_Appends(sorted, x, field) == Append(sorted, x)

RECURSIVE InsertDescending(_, _, _)
\* x put behind the entries whose key is not smaller than its own.
InsertDescending(sorted, x, field) ==
    IF sorted = <<>> THEN <<x>>
    ELSE IF StrLess(SortKey(Head(sorted), field), SortKey(x, field))
         THEN <<x>> \o sorted
         ELSE <<Head(sorted)>> \o InsertDescending(Tail(sorted), x, field)

RECURSIVE SortDescending(_, _)
\* entries.sort(key=lambda x: x.get(field, ""), reverse=True): greatest
\* key first, entries of equal key in the order they had.
SortDescending(entries, field) ==
    IF entries = <<>> THEN <<>>
    ELSE InsertDescending(
             SortDescending(SubSeq(entries, 1, Len(entries) - 1), field),
             entries[Len(entries)], field)

RECURSIVE AscendingIds(_)
AscendingIds(ids) ==
    IF ids = {} THEN <<>>
    ELSE LET least == CHOOSE d \in ids : \A e \in ids : d <= e
         IN <<least>> \o AscendingIds(ids \ {least})

\* FirebaseService.get_documents as the list it returns: each document's
\* fields with the document id under "id", oldest document first; online,
\* a failed read is caught and an empty list returned.
documents(store, offline, raises) ==
    IF ~offline /\ raises THEN <<>>
    ELSE LET ids == AscendingIds(DOMAIN store)
         IN [i \in 1..Len(ids) |-> DictSet(store[ids[i]], "id", ids[i])]

\* entries[:limit]
Take(entries, limit) ==
    SubSeq(entries, 1, IF limit < Len(entries) THEN limit ELSE Len(entries))

\* The entries of a list that satisfy Test, in the list's order.
Filter(entries, Test(_)) ==
    LET F[i \in 0..Len(entries)] ==
            IF i = 0 THEN <<>>
            ELSE IF Test(entries[i]) THEN Append(F[i - 1], entries[i])
                 ELSE F[i - 1]
    IN F[Len(entries)]

----------------------------------------------------------------------------
(* HistoryService (src/geral/history_service.py) over the "historico"
   collection *)

\* The action types the program records.
ActionTypes == {"plan_generation", "task_creation"}

\* get_history's action_type when the caller gives none.
NoFilter == ""

\* get_history's limit when the caller gives none.
DefaultLimit == 10

\* add_history_entry: without a store, success and nothing kept; with one,
\* the entry is written and the result is whether an id came back.
add_history_entry(store, has_firebase, offline, new_id, action_type, description, now, raises) ==
    IF ~has_firebase THEN [store |-> store, res |-> TRUE]
    ELSE LET entry == [action_type |-> action_type,
                       description |-> description,
                       timestamp |-> isoformat(now)]
             r == add_document(store, offline, new_id, entry, raises)
         IN [store |-> r.store, res |-> r.id # 0]

\* register_plan_generation and register_task_creation.
register_plan_generation(store, has_firebase, offline, new_id, now, raises) ==
    add_history_entry(store, has_firebase, offline, new_id,
                      "plan_generation", "Plano gerado", now, raises)

register_task_creation(store, has_firebase, offline, new_id, now, raises) ==
    add_history_entry(store, has_firebase, offline, new_id,
                      "task_creation", "Tarefa criada", now, raises)

get_history_TruncatesFirst(store, has_firebase, offline, limit, action_type, raises) ==
    IF ~has_firebase THEN <<>>
    ELSE LET first == Take(SortDescending(documents(store, offline, raises), "timestamp"),
                           limit)
             Matches(e) == e.action_type = action_type
         IN IF action_type # NoFilter THEN Filter(first, Matches) ELSE first

\* get_history: all entries, most recent first, then those of the given
\* type, then the first limit of them.
get_history(store, has_firebase, offline, limit, action_type, raises) ==
    IF ~has_firebase THEN <<>>
    ELSE LET entries == SortDescending(documents(store, offline, raises), "timestamp")
             Matches(e) == e.action_type = action_type
             filtered == IF action_type # NoFilter
                         THEN Filter(entries, Matches) ELSE entries
         IN Take(filtered, limit)

RECURSIVE DeleteEntries(_, _, _, _, _)
\* The loop of lines 154-157: each entry read is deleted, the result of
\* delete_document is dropped.
DeleteEntries(store, offline, entries, i, failing) ==
    IF i > Len(entries) THEN store
    ELSE DeleteEntries(delete_document(store, offline, entries[i].id,
                                       entries[i].id \in failing).store,
                       offline, entries, i + 1, failing)

\* clear_history: True without a store; with one, True once the loop ran.
clear_history(store, has_firebase, offline, readRaises, failing) ==
    IF ~has_firebase THEN [store |-> store, res |-> TRUE]
    ELSE [store |-> DeleteEntries(store, offline,
                                  documents(store, offline, readRaises),
                                  1, failing),
          res |-> TRUE]

----------------------------------------------------------------------------
(* Plans and their materialization into tasks: home.create_tasks_from_plan,
   the two criar_tarefas_do_plano and the pages that call them *)

\* Ids (uuid4 values and store ids) handed out in a run of the pages.
MaxIds == 4

\* Lines of a plan text the model generates.
MaxLines == 4

\* Tasks of a JSON plan.
MaxPlanTasks == 2

\* Plans the plans history takes in a run.
MaxPlans == 2

\* st.session_state.get(key)
Get(state, key) == IF key \in DOMAIN state THEN state[key] ELSE None

\* uuid.uuid4() and the store's new document ids: a value no earlier call
\* returned; next counts the ids handed out.
uuid4(next) == next + 1

\* A line of a plan text, by what the pattern of home.py line 221 sees in
\* it: "task" is a numbered line ("1. ..."), "sub" a dash line ("- ...").
\* A text without a numbered line followed by a dash line has no block.
LineKinds == {"task", "sub"}

PlanTexts == UNION {[1..n -> LineKinds] : n \in 1..MaxLines}

RECURSIVE SubRun(_, _)
\* The dash lines that follow one another from line i on.
SubRun(text, i) ==
    IF i > Len(text) \/ text[i] # "sub" THEN 0 ELSE 1 + SubRun(text, i + 1)

RECURSIVE task_blocks(_, _)
\* re.findall of line 221 from line i on: a numbered line followed by one
\* or more dash lines is a block; the value kept is the number of dash lines.
task_blocks(text, i) ==
    IF i > Len(text) THEN <<>>
    ELSE IF text[i] = "task" /\ SubRun(text, i + 1) > 0
         THEN <<SubRun(text, i + 1)>>
              \o task_blocks(text, i + 1 + SubRun(text, i + 1))
         ELSE task_blocks(text, i + 1)

\* TaskService.add_task(self, title, due_date, priority="Média"): the
\* numbers of arguments a call can pass.
add_task_arity == {2, 3}

\* TaskService.add_task called with nargs arguments: Python raises TypeError
\* unless they bind; the body writes the document and returns its id, or
\* None (0) when the write fails.
add_task(store, offline, new_id, nargs, raises) ==
    IF nargs \notin add_task_arity
    THEN [store |-> store, id |-> 0, raised |-> TRUE]
    ELSE LET r == add_document(store, offline, new_id, TaskData, raises)
         IN [store |-> r.store, id |-> r.id, raised |-> FALSE]

\* The clock reading the plan pages' history entries carry.
PlanClock == <<0, 0>>

RECURSIVE CreateEach(_, _, _, _, _, _, _, _, _)
\* The loop of home.py lines 228-263 from block i on.  Each block takes a
\* uuid4 per subtask and one for the task, then calls
\* task_service.add_task(task), one argument; an exception leaves the loop
\* for the handler of line 271.  hist is the "historico" collection.
CreateEach(blocks, i, store, hist, has_firebase, offline, next, stored, recorded) ==
    IF i > Len(blocks)
    THEN [raised |-> FALSE, store |-> store, hist |-> hist, next |-> next,
          attempted |-> Len(blocks), stored |-> stored, recorded |-> recorded]
    ELSE LET afterIds == next + blocks[i] + 1
             added == add_task(store, offline, uuid4(afterIds), 1, FALSE)
         IN IF added.raised
            THEN [raised |-> TRUE, store |-> store, hist |-> hist,
                  next |-> afterIds, attempted |-> i, stored |-> stored,
                  recorded |-> recorded]
            ELSE IF added.id # 0
            THEN LET reg == register_task_creation(hist, has_firebase, offline,
                                uuid4(afterIds + 1), PlanClock, FALSE)
                 IN CreateEach(blocks, i + 1, added.store, reg.store,
                               has_firebase, offline, afterIds + 2,
                               stored + 1, recorded + 1)
            ELSE CreateEach(blocks, i + 1, added.store, hist, has_firebase,
                            offline, afterIds + 1, stored, recorded)

\* home.create_tasks_from_plan: None without a plan, False when the text
\* has no block or an exception is caught, else True with the plan cleared.
create_tasks_from_plan(state, store, hist, has_firebase, offline, next) ==
    LET blocks == task_blocks(Get(state, "plan_result"), 1)
        same == [state |-> state, store |-> store, hist |-> hist,
                 next |-> next, n_tasks |-> 0, attempted |-> 0,
                 stored |-> 0, recorded |-> 0]
        loop == CreateEach(blocks, 1, store, hist, has_firebase, offline,
                           next, 0, 0)
    IN IF Get(state, "plan_result") = None THEN same @@ [res |-> "none"]
       ELSE IF blocks = <<>> THEN same @@ [res |-> "false"]
       ELSE [res |-> IF loop.raised THEN "false" ELSE "true",
             state |-> IF loop.raised THEN state
                       ELSE DictSet(state, "plan_result", None),
             store |-> loop.store, hist |-> loop.hist, next |-> loop.next,
             n_tasks |-> Len(blocks), attempted |-> loop.attempted,
             stored |-> loop.stored, recorded |-> loop.recorded]

\* The tarefas of a JSON plan: a title, with or without subtarefas.
TarefaDatas ==
    {[titulo |-> "t"], [titulo |-> "t", subtarefas |-> <<[titulo |-> "s"]>>]}

\* Parsed JSON plans with the "tarefas" key.
JsonPlans ==
    {[titulo |-> "T", tarefas |-> ts] :
        ts \in UNION {[1..n -> TarefaDatas] : n \in 0..MaxPlanTasks}}

\* A JSON object without "tarefas", and a text json.loads rejects.
NoTarefas == [titulo |-> "T"]
NotJson == [text |-> "texto"]

PlanDatas == JsonPlans \cup {NoTarefas, NotJson}

\* json.loads(plan_text) returns rather than raises.
IsJson(plan_data) == "text" \notin DOMAIN plan_data

\* The number of tasks a plan holds, -1 for what is not a plan with tasks.
TasksIn(plan_data) ==
    IF plan_data # None /\ IsJson(plan_data) /\ "tarefas" \in DOMAIN plan_data
    THEN Len(plan_data.tarefas) ELSE -1

\* dict.get(key, default)
GetOr(d, key, default) == IF key \in DOMAIN d THEN d[key] ELSE default

\* The dict criar_tarefas_do_plano builds for one tarefa: a uuid4 for the
\* task, then one per subtarefa; "subtarefas" only when the plan lists some.
NovaTarefa(tarefa_data, next) ==
    LET tarefa_id == uuid4(next)
        given == IF "subtarefas" \in DOMAIN tarefa_data
                 THEN tarefa_data.subtarefas ELSE <<>>
        subtarefas == [i \in 1..Len(given) |->
                          [id |-> tarefa_id + i, titulo |-> given[i].titulo,
                           descricao |-> GetOr(given[i], "descricao", ""),
                           completed |-> FALSE]]
        tarefa == [id |-> tarefa_id, titulo |-> tarefa_data.titulo,
                   descricao |-> GetOr(tarefa_data, "descricao", ""),
                   prioridade |-> GetOr(tarefa_data, "prioridade", "média"),
                   created_at |-> isoformat(PlanClock),
                   completed |-> FALSE]
    IN [tarefa |-> IF given # <<>>
                   THEN tarefa @@ [subtarefas |-> subtarefas] ELSE tarefa,
        next |-> tarefa_id + Len(given)]

RECURSIVE NovasTarefas(_, _, _)
\* The loop of tarefas/components.py lines 75-101 from tarefa i on.
NovasTarefas(tarefas, i, next) ==
    IF i > Len(tarefas) THEN [novas |-> <<>>, next |-> next]
    ELSE LET t == NovaTarefa(tarefas[i], next)
             rest == NovasTarefas(tarefas, i + 1, t.next)
         IN [novas |-> <<t.tarefa>> \o rest.novas, next |-> rest.next]

\* criar_tarefas_do_plano of servicos_modularizados/tarefas/components.py:
\* the plan given or else last_plan; False without one, on text that is not
\* JSON and on a plan without "tarefas"; else the new tasks are appended to
\* st.session_state.tasks, last_plan is cleared and the result is True.
tarefas_criar_tarefas_do_plano(state, plan_arg, next) ==
    LET plan_data == IF plan_arg = None /\ "last_plan" \in DOMAIN state
                     THEN state.last_plan ELSE plan_arg
        n == NovasTarefas(plan_data.tarefas, 1, next)
        withTasks == DictSet(state, "tasks", Get(state, "tasks") \o n.novas)
    IN IF plan_data = None \/ ~IsJson(plan_data)
          \/ "tarefas" \notin DOMAIN plan_data
       THEN [res |-> FALSE, state |-> state, next |-> next]
       ELSE [res |-> TRUE,
             state |-> IF "last_plan" \in DOMAIN withTasks
                       THEN DictSet(withTasks, "last_plan", None)
                       ELSE withTasks,
             next |-> n.next]

\* TaskStorageService.add_task: online, FirebaseService.add_task writes the
\* dict to "todos" under a new document id (None when the write fails);
\* offline, the dict is appended to st.session_state.tasks under the id it
\* carries.
TaskStorageService_add_task(state, store, offline, task_data, next, raises) ==
    IF ~offline
    THEN LET r == add_document(store, offline, uuid4(next), task_data, raises)
         IN [state |-> state, store |-> r.store, id |-> r.id,
             next |-> uuid4(next)]
    ELSE [state |-> DictSet(state, "tasks",
                            Append(Get(state, "tasks"), task_data)),
          store |-> store, id |-> task_data.id, next |-> next]

RECURSIVE AddTarefas(_, _, _, _, _, _, _)
\* The loop of plano_tarefas/tarefas_components.py lines 118-146 from
\* tarefa i on; what add_task returns is not looked at.  failing holds the
\* numbers of the tarefas whose online write raises.
AddTarefas(tarefas, i, state, store, offline, next, failing) ==
    IF i > Len(tarefas)
    THEN [state |-> state, store |-> store, next |-> next]
    ELSE LET t == NovaTarefa(tarefas[i], next)
             a == TaskStorageService_add_task(state, store, offline, t.tarefa,
                                              t.next, i \in failing)
         IN AddTarefas(tarefas, i + 1, a.state, a.store, offline, a.next,
                       failing)

\* criar_tarefas_do_plano of plano_tarefas/tarefas_components.py: as the
\* other one up to the loop, which hands each task to the storage service;
\* nothing of the session's plan keys is written.
plano_tarefas_criar_tarefas_do_plano(state, store, offline, plan_arg, next, failing) ==
    LET plan_data == IF plan_arg = None /\ "last_plan" \in DOMAIN state
                     THEN state.last_plan ELSE plan_arg
        a == AddTarefas(plan_data.tarefas, 1, state, store, offline, next,
                        failing)
    IN IF plan_data = None \/ ~IsJson(plan_data)
          \/ "tarefas" \notin DOMAIN plan_data
       THEN [res |-> FALSE, state |-> state, store |-> store, next |-> next]
       ELSE [res |-> TRUE, state |-> a.state, store |-> a.store,
             next |-> a.next]

----------------------------------------------------------------------------
(* The plans history of servicos_modularizados/historico_planos over
   FirestoreService (src/geral/firestore_service.py) *)

\* get_plans_history's limit when the caller gives none.
PlansLimit == 20

\* FirestoreService.get_plans_history: the documents of "planos_historico",
\* latest created_at first, the first limit of them.
firestore_get_plans_history(plans, offline, limit, raises) ==
    Take(SortDescending(documents(plans, offline, raises), "created_at"),
         limit)

\* ensure_plans_history_loaded: the first call of a session creates the
\* key and fills it from the store, when there is one.
ensure_plans_history_loaded(state, plans, has_firestore, offline, raises) ==
    IF "planos_historico" \in DOMAIN state THEN state
    ELSE LET loaded == IF has_firestore
                       THEN firestore_get_plans_history(plans, offline,
                                                        PlansLimit, raises)
                       ELSE <<>>
         IN DictSet(state, "planos_historico",
                    [i \in 1..Len(loaded) |->
                        [titulo |-> loaded[i].titulo, json |-> loaded[i].json,
                         data |-> loaded[i].created_at]])

\* save_plan_to_history: the plan is appended to the session's list and,
\* with a store, written to "planos_historico"; the result is True whatever
\* the store did.
save_plan_to_history(state, plans, has_firestore, offline, new_id, plan_data, now, readRaises, raises) ==
    LET loaded == ensure_plans_history_loaded(state, plans, has_firestore,
                                              offline, readRaises)
        doc == [titulo |-> Get(plan_data, "titulo"), json |-> "{}",
                created_at |-> isoformat(now), tipo |-> "plano"]
    IN [state |-> DictSet(loaded, "planos_historico",
                          Append(loaded.planos_historico, plan_data)),
        plans |-> IF has_firestore
                  THEN add_document(plans, offline, new_id, doc, raises).store
                  ELSE plans,
        res |-> TRUE]

\* clear_plans_history: the session's list is emptied; with a store, each
\* document read is deleted (FirestoreService.clear_plans_history, whose
\* result is only logged); the result is True.
clear_plans_history(state, plans, has_firestore, offline, readRaises, failing) ==
    [state |-> DictSet(state, "planos_historico", <<>>),
     plans |-> IF has_firestore
               THEN DeleteEntries(plans, offline,
                                  documents(plans, offline, readRaises), 1,
                                  failing)
               ELSE plans,
     res |-> TRUE]

\* list.pop(indice), indice counted from 0.
ListPop(list, indice) ==
    SubSeq(list, 1, indice) \o SubSeq(list, indice + 2, Len(list))

\* remover_plano_do_historico: False for an index past the list; else the
\* entry is popped from the session's list and, when it carries an id,
\* deleted from the store.
remover_plano_do_historico(state, plans, has_firestore, offline, indice, raises) ==
    IF "planos_historico" \notin DOMAIN state
       \/ indice >= Len(state.planos_historico)
    THEN [state |-> state, plans |-> plans, res |-> FALSE]
    ELSE LET plano == state.planos_historico[indice + 1]
         IN [state |-> DictSet(state, "planos_historico",
                               ListPop(state.planos_historico, indice)),
             plans |-> IF has_firestore /\ "id" \in DOMAIN plano
                       THEN delete_document(plans, offline, plano.id,
                                            raises).store
                       ELSE plans,
             res |-> TRUE]

----------------------------------------------------------------------------
(* SpecPlan: the pages that generate plans and make tasks of them, one
   handler run at a time *)

\* The tasks the program holds: the documents of "todos" and the session's
\* task list.
TaskCount(store, state) == Cardinality(DOMAIN store) + Len(Get(state, "tasks"))

\* A new session with nothing stored; the store is Firestore or the local
\* one.
InitPages ==
    /\ session_state = FreshSession
    /\ collections = EmptyCollections
    /\ storage = <<>>
    /\ is_offline_mode \in BOOLEAN
    /\ nextId = 0
    /\ lastTask = [op |-> "init", id |-> 0, res |-> FALSE]
    /\ lastPlan = LastPlanOp("init", FALSE, 0, "none", 0, 0, 0)
    /\ lastHist = LastHistOp("init", FALSE, 0, "", <<>>, 0)
    /\ InitRegistry
    /\ InitConcIdle
    /\ InitAuxIdle

\* The home page runs with or without a FirebaseService for its history.
InitHome ==
    InitPages /\ firebase \in BOOLEAN /\ firestore_service = "firebase"

\* The module pages run with or without a FirestoreService.
InitPlan ==
    /\ InitPages
    /\ firebase = TRUE
    /\ firestore_service \in {"none", "firebase"}

\* home.generate_plan (lines 86-175): the response becomes plan_result and
\* the generation is registered in the history; when the AI call raises,
\* neither happens.
GeneratePlan(response, aiRaises, raises) ==
    /\ raises \in Raises
    /\ nextId < MaxIds
    /\ LET reg == register_plan_generation(collections.historico, firebase,
                      is_offline_mode, uuid4(nextId), PlanClock, raises)
       IN IF aiRaises
          THEN UNCHANGED <<session_state, collections, nextId>>
          ELSE /\ session_state' = DictSet(session_state, "plan_result",
                                           response)
               /\ collections' = [collections EXCEPT !.historico = reg.store]
               /\ nextId' = IF firebase THEN uuid4(nextId) ELSE nextId
    /\ lastPlan' = LastPlanOp("generate_plan", ~aiRaises, 0, "none", 0, 0, 0)
    /\ UNCHANGED <<storage, is_offline_mode, lastTask, firebase,
                   firestore_service, lastHist, registryVars, concVars,
                   auxVars>>

\* The home page (lines 700-717): with a plan to show and the button
\* clicked in this run, create_tasks_from_plan; after its success the plan
\* is cleared.  A run without the click only renders.
HomePage(click) ==
    /\ LET r == create_tasks_from_plan(session_state, storage,
                    collections.historico, firebase, is_offline_mode, nextId)
       IN IF click /\ Get(session_state, "plan_result") # None
          THEN /\ r.next <= MaxIds
               /\ session_state' = IF r.res = "true"
                                   THEN DictSet(r.state, "plan_result", None)
                                   ELSE r.state
               /\ storage' = r.store
               /\ collections' = [collections EXCEPT !.historico = r.hist]
               /\ nextId' = r.next
               /\ lastPlan' = LastPlanOp("create_tasks_from_plan", FALSE,
                                  r.n_tasks, r.res, r.attempted, r.stored,
                                  r.recorded)
          ELSE /\ UNCHANGED <<session_state, storage, collections, nextId>>
               /\ lastPlan' = LastPlanOp("home", FALSE, 0, "none", 0, 0, 0)
    /\ UNCHANGED <<is_offline_mode, lastTask, firebase, firestore_service,
                   lastHist, registryVars, concVars, auxVars>>

\* planning_ui of servicos_modularizados/planejamento/components.py (lines
\* 147-151): a generated plan is kept in last_plan.
SetLastPlan(plan_result) ==
    /\ session_state' = DictSet(session_state, "last_plan", plan_result)
    /\ lastPlan' = LastPlanOp("planning_ui", TRUE, TasksIn(plan_result),
                              "none", 0, 0, 0)
    /\ UNCHANGED <<storage, is_offline_mode, nextId, lastTask, collections,
                   firebase, firestore_service, lastHist, registryVars,
                   concVars, auxVars>>

\* A page calls the tarefas module's criar_tarefas_do_plano, with a plan or
\* with none (the plan is then last_plan).
CriarTarefasDoPlano(plan_arg) ==
    /\ LET r == tarefas_criar_tarefas_do_plano(session_state, plan_arg, nextId)
           plan_data == IF plan_arg = None
                        THEN Get(session_state, "last_plan") ELSE plan_arg
       IN /\ r.next <= MaxIds
          /\ session_state' = r.state
          /\ nextId' = r.next
          /\ lastPlan' = LastPlanOp("tarefas.criar_tarefas_do_plano",
                             plan_data # None, TasksIn(plan_data),
                             IF r.res THEN "true" ELSE "false",
                             IF r.res THEN Len(plan_data.tarefas) ELSE 0,
                             Len(r.state.tasks) - Len(session_state.tasks), 0)
    /\ UNCHANGED <<storage, is_offline_mode, lastTask, collections, firebase,
                   firestore_service, lastHist, registryVars, concVars,
                   auxVars>>

PlanTextOf_FromSession(generated, state) ==
    IF generated = None THEN Get(state, "current_plan") ELSE generated

\* Lines 568-580 of src/geral/implementation.py: the plan the tab works on
\* is the text planning_ui returned in this run, None unless the button was
\* clicked and the generation succeeded; the session is not consulted.
PlanTextOf(generated, state) == generated

\* The planning tab (src/geral/implementation.py lines 564-647): a plan
\* generated in this run is parsed, kept as current_plan when there is none
\* yet, saved to the plans history and handed to criar_tarefas_do_plano.
\* failing holds the online writes that raise: 0 the history's, i that of
\* task i.
PlanTab(generated, failing) ==
    /\ failing \in (IF is_offline_mode THEN {{}} ELSE SUBSET (0..MaxPlanTasks))
    /\ LET plan_data == PlanTextOf(generated, session_state)
           withCurrent == IF "current_plan" \in DOMAIN session_state
                          THEN session_state
                          ELSE DictSet(session_state, "current_plan", plan_data)
           saved == save_plan_to_history(withCurrent,
                        collections.planos_historico,
                        firestore_service = "firebase",
                        is_offline_mode, uuid4(nextId), plan_data, PlanClock,
                        FALSE, 0 \in failing)
           afterSave == IF firestore_service = "firebase" THEN uuid4(nextId) ELSE nextId
           r == plano_tarefas_criar_tarefas_do_plano(saved.state, storage,
                    is_offline_mode, plan_data, afterSave, failing)
       IN IF plan_data = None \/ ~IsJson(plan_data)
          THEN /\ UNCHANGED <<session_state, storage, collections, nextId>>
               /\ lastPlan' = LastPlanOp("plan_tab", generated # None, -1,
                                         "none", 0, 0, 0)
          ELSE /\ r.next <= MaxIds
               /\ Len(saved.state.planos_historico) <= MaxPlans
               /\ session_state' = r.state
               /\ storage' = r.store
               /\ collections' = [collections EXCEPT
                                     !.planos_historico = saved.plans]
               /\ nextId' = r.next
               /\ lastPlan' = LastPlanOp("plan_tab", generated # None,
                                  TasksIn(plan_data),
                                  IF r.res THEN "true" ELSE "false",
                                  IF r.res THEN Len(plan_data.tarefas) ELSE 0,
                                  TaskCount(r.store, r.state)
                                      - TaskCount(storage, session_state),
                                  0)
    /\ UNCHANGED <<is_offline_mode, lastTask, firebase, firestore_service,
                   lastHist, registryVars, concVars, auxVars>>

NextHome ==
    \/ \E response \in PlanTexts : \E aiRaises, raises \in BOOLEAN :
           GeneratePlan(response, aiRaises, raises)
    \/ \E click \in BOOLEAN : HomePage(click)

\* The home page: plans as numbered text.
SpecHome == InitHome /\ [][NextHome]_vars

NextPlan ==
    \/ \E plan_result \in PlanDatas : SetLastPlan(plan_result)
    \/ \E plan_arg \in {None} \cup PlanDatas : CriarTarefasDoPlano(plan_arg)
    \/ \E generated \in {None} \cup PlanDatas :
           \E failing \in SUBSET (0..MaxPlanTasks) : PlanTab(generated, failing)

\* The module pages: plans as JSON.
SpecPlan == InitPlan /\ [][NextPlan]_vars

----------------------------------------------------------------------------
(* Claims about the materialization of plans *)

\* The operations that make tasks of a plan.
MaterializeOps ==
    {"create_tasks_from_plan", "tarefas.criar_tarefas_do_plano", "plan_tab"}

\* C12: making tasks of a plan whose task list is empty reports a failure,
\* never success, and writes no task and no history entry.
C12_EmptyPlanFails ==
    (lastPlan.op \in MaterializeOps /\ lastPlan.n_tasks = 0)
        => /\ lastPlan.res # "true"
           /\ lastPlan.stored = 0
           /\ lastPlan.recorded = 0

\* C13: while the home page makes tasks of a plan, a task_creation entry is
\* recorded only for a task whose store write returned an id, and a failed
\* write does not stop the remaining tasks from being attempted.
C13_FailedWriteSkipsOnlyItsEntry ==
    (lastPlan.op = "create_tasks_from_plan" /\ lastPlan.n_tasks > 0)
        => /\ lastPlan.recorded <= lastPlan.stored
           /\ lastPlan.attempted = lastPlan.n_tasks

\* C14 as stated: after tasks were made of a plan with success, the session
\* holds the plan no longer, under none of its keys.
C14_SourcePlanCleared ==
    (lastPlan.op \in MaterializeOps /\ lastPlan.res = "true"
     /\ lastPlan.n_tasks > 0)
        => /\ Get(session_state, "plan_result") = None
           /\ Get(session_state, "last_plan") = None
           /\ Get(session_state, "current_plan") = None

\* C14 amended: a run of the planning tab in which no plan was generated
\* makes no task, whatever plan the session still holds.
C14_RerenderMakesNoTask ==
    [][(lastPlan'.op = "plan_tab" /\ ~lastPlan'.generated)
          => TaskCount(storage', session_state')
                 = TaskCount(storage, session_state)]_vars

\* A re-render of the tab after tasks were made of the plan the session
\* still holds as current_plan.
C14_RerenderAfterSuccess ==
    /\ lastPlan.op = "plan_tab"
    /\ ~lastPlan.generated
    /\ TasksIn(Get(session_state, "current_plan")) > 0
    /\ TaskCount(storage, session_state) > 0

\* C15: a stored task is read back under the id it was given when it was
\* created, and no two stored tasks share an id.
C15_IdIsImmutableAndUnique ==
    /\ \A d \in DOMAIN storage :
           "id" \in DOMAIN storage[d] => storage[d].id = d
    /\ \A d, e \in DOMAIN storage :
           ("id" \in DOMAIN storage[d] /\ "id" \in DOMAIN storage[e]
            /\ storage[d].id = storage[e].id) => d = e

----------------------------------------------------------------------------
(* The task events history of servicos_modularizados/historico_tarefas *)

\* The public methods of FirestoreService.
FirestoreService_methods ==
    {"save_plan_to_history", "get_plans_history", "clear_plans_history",
     "get_collection", "add_document", "delete_document"}

EventTypes == {"created", "completed"}

\* st.session_state.tasks_history, [] when the key is not there yet.
tasks_history(state) ==
    IF "tasks_history" \in DOMAIN state THEN state.tasks_history ELSE <<>>

\* record_task_event: the event is appended to the session's list and,
\* with a firestore_service, handed to its add_document, which writes only
\* with a store; the result is True.
record_task_event(state, store, fs, offline, new_uuid, new_id, event_type, now, raises) ==
    LET evento == [id |-> new_uuid, type |-> event_type,
                   timestamp |-> isoformat(now)]
    IN [state |-> DictSet(state, "tasks_history",
                          Append(tasks_history(state), evento)),
        store |-> IF fs = "firebase"
                  THEN add_document(store, offline, new_id, evento,
                                    raises).store
                  ELSE store,
        res |-> TRUE]

\* get_tasks_history: the first call of a session creates the list and
\* asks firestore_service.get_documents for the stored events, a call that
\* raises AttributeError for a method the class does not have; the list is
\* then sorted in place, latest first, and returned.
get_tasks_history(state, store, fs, offline, raises) ==
    LET eventos == IF "tasks_history" \notin DOMAIN state /\ fs # "none"
                      /\ "get_documents" \in FirestoreService_methods
                   THEN SortDescending(documents(store, offline, raises),
                                       "timestamp")
                   ELSE tasks_history(state)
        historico == SortDescending(eventos, "timestamp")
    IN [state |-> DictSet(state, "tasks_history", historico),
        result |-> historico]

\* clear_tasks_history: the session's list is emptied; with a
\* firestore_service the stored events are read through get_documents and
\* deleted one by one, and an exception on the way makes the result False.
clear_tasks_history(state, store, fs, offline, readRaises, failing) ==
    LET cleared == DictSet(state, "tasks_history", <<>>)
    IN IF fs = "none" THEN [state |-> cleared, store |-> store, res |-> TRUE]
       ELSE IF "get_documents" \notin FirestoreService_methods
       THEN [state |-> cleared, store |-> store, res |-> FALSE]
       ELSE [state |-> cleared,
             store |-> IF fs = "firebase"
                       THEN DeleteEntries(store, offline,
                                documents(store, offline, readRaises), 1,
                                failing)
                       ELSE store,
             res |-> TRUE]

----------------------------------------------------------------------------
(* SpecHistory: the three histories, one call at a time *)

\* Entries the "historico" collection takes in a run.
MaxEntries == 3

\* limit values a caller of get_history passes; DefaultLimit stands for a
\* call without one.
Limits == {1, 2, DefaultLimit}

\* The plans a page saves to the plans history.
SavedPlans == {NoTarefas, [titulo |-> "T", tarefas |-> <<[titulo |-> "t"]>>]}

\* What a query for everything returns from each history.
AllHistory ==
    get_history(collections.historico, firebase, is_offline_mode,
                Cardinality(DOMAIN collections.historico), NoFilter, FALSE)

InitHistory ==
    InitPages /\ firebase \in BOOLEAN /\ firestore_service = "firebase"

InitEvents ==
    /\ InitPages
    /\ firebase = TRUE
    /\ firestore_service \in {"none", "offline", "firebase"}

\* The store deletes that raise in a clear: none of them offline.
FailingIn(store) == IF is_offline_mode THEN {{}} ELSE SUBSET DOMAIN store

AddHistoryEntry(action_type, now, raises) ==
    /\ raises \in Raises
    /\ nextId < MaxEntries
    /\ LET r == add_history_entry(collections.historico, firebase,
                    is_offline_mode, uuid4(nextId), action_type, "descricao",
                    now, raises)
       IN /\ collections' = [collections EXCEPT !.historico = r.store]
          /\ lastHist' = LastHistOp("add_history_entry", r.res, 0,
                             action_type, <<>>, Len(AllHistory))
    /\ nextId' = IF uuid4(nextId) \in DOMAIN collections'.historico
                 THEN uuid4(nextId) ELSE nextId
    /\ UNCHANGED <<session_state, storage, is_offline_mode, lastTask,
                   firebase, firestore_service, lastPlan, registryVars,
                   concVars, auxVars>>

\* A call of get_history; res tells whether the read of the store came
\* back, which the caller cannot see: a failed read returns [] as well.
GetHistory(limit, action_type, raises) ==
    /\ raises \in Raises
    /\ lastHist' = LastHistOp("get_history", ~raises, limit, action_type,
                       get_history(collections.historico, firebase,
                           is_offline_mode, limit, action_type, raises),
                       0)
    /\ UNCHANGED <<session_state, collections, storage, is_offline_mode,
                   nextId, lastTask, firebase, firestore_service, lastPlan,
                   registryVars, concVars, auxVars>>

ClearHistory(readRaises, failing) ==
    /\ readRaises \in Raises
    /\ failing \in FailingIn(collections.historico)
    /\ LET r == clear_history(collections.historico, firebase,
                    is_offline_mode, readRaises, failing)
       IN /\ collections' = [collections EXCEPT !.historico = r.store]
          /\ lastHist' = LastHistOp("clear_history", r.res, 0, "", <<>>,
                             Len(AllHistory))
    /\ UNCHANGED <<session_state, storage, is_offline_mode, nextId, lastTask,
                   firebase, firestore_service, lastPlan, registryVars,
                   concVars, auxVars>>

RecordTaskEvent(event_type, now, raises) ==
    /\ raises \in Raises
    /\ nextId + 2 <= MaxIds
    /\ LET r == record_task_event(session_state, collections.tarefas_historico,
                    firestore_service, is_offline_mode, uuid4(nextId),
                    uuid4(nextId + 1), event_type, now, raises)
       IN /\ session_state' = r.state
          /\ collections' = [collections EXCEPT !.tarefas_historico = r.store]
          /\ lastHist' = LastHistOp("record_task_event", r.res, 0, event_type,
                             <<>>, Len(tasks_history(session_state)))
    /\ nextId' = nextId + 2
    /\ UNCHANGED <<storage, is_offline_mode, lastTask, firebase,
                   firestore_service, lastPlan, registryVars, concVars,
                   auxVars>>

GetTasksHistory(raises) ==
    /\ raises \in Raises
    /\ LET r == get_tasks_history(session_state,
                    collections.tarefas_historico, firestore_service,
                    is_offline_mode, raises)
       IN /\ session_state' = r.state
          /\ lastHist' = LastHistOp("get_tasks_history", TRUE, 0, "",
                             r.result, Len(tasks_history(session_state)))
    /\ UNCHANGED <<collections, storage, is_offline_mode, nextId, lastTask,
                   firebase, firestore_service, lastPlan, registryVars,
                   concVars, auxVars>>

ClearTasksHistory(readRaises, failing) ==
    /\ readRaises \in Raises
    /\ failing \in FailingIn(collections.tarefas_historico)
    /\ LET r == clear_tasks_history(session_state,
                    collections.tarefas_historico, firestore_service,
                    is_offline_mode, readRaises, failing)
       IN /\ session_state' = r.state
          /\ collections' = [collections EXCEPT !.tarefas_historico = r.store]
          /\ lastHist' = LastHistOp("clear_tasks_history", r.res, 0, "", <<>>,
                             Len(tasks_history(session_state)))
    /\ UNCHANGED <<storage, is_offline_mode, nextId, lastTask, firebase,
                   firestore_service, lastPlan, registryVars, concVars,
                   auxVars>>

SavePlanToHistory(plan_data, now, readRaises, raises) ==
    /\ readRaises \in Raises
    /\ raises \in Raises
    /\ nextId < MaxIds
    /\ Len(Get(session_state, "planos_historico")) < MaxPlans
    /\ LET r == save_plan_to_history(session_state,
                    collections.planos_historico,
                    firestore_service = "firebase", is_offline_mode,
                    uuid4(nextId), plan_data, now, readRaises, raises)
       IN /\ session_state' = r.state
          /\ collections' = [collections EXCEPT !.planos_historico = r.plans]
          /\ lastHist' = LastHistOp("save_plan_to_history", r.res, 0, "",
                             <<>>, Len(Get(session_state, "planos_historico")))
    /\ nextId' = IF firestore_service = "firebase" THEN uuid4(nextId)
                 ELSE nextId
    /\ UNCHANGED <<storage, is_offline_mode, lastTask, firebase,
                   firestore_service, lastPlan, registryVars, concVars,
                   auxVars>>

ClearPlansHistory(readRaises, failing) ==
    /\ readRaises \in Raises
    /\ failing \in FailingIn(collections.planos_historico)
    /\ LET r == clear_plans_history(session_state,
                    collections.planos_historico,
                    firestore_service = "firebase", is_offline_mode,
                    readRaises, failing)
       IN /\ session_state' = r.state
          /\ collections' = [collections EXCEPT !.planos_historico = r.plans]
          /\ lastHist' = LastHistOp("clear_plans_history", r.res, 0, "", <<>>,
                             Len(Get(session_state, "planos_historico")))
    /\ UNCHANGED <<storage, is_offline_mode, nextId, lastTask, firebase,
                   firestore_service, lastPlan, registryVars, concVars,
                   auxVars>>

RemoverPlanoDoHistorico(indice, raises) ==
    /\ raises \in Raises
    /\ LET r == remover_plano_do_historico(session_state,
                    collections.planos_historico,
                    firestore_service = "firebase", is_offline_mode, indice,
                    raises)
       IN /\ session_state' = r.state
          /\ collections' = [collections EXCEPT !.planos_historico = r.plans]
          /\ lastHist' = LastHistOp("remover_plano_do_historico", r.res, 0,
                             "", <<>>,
                             Len(Get(session_state, "planos_historico")))
    /\ UNCHANGED <<storage, is_offline_mode, nextId, lastTask, firebase,
                   firestore_service, lastPlan, registryVars, concVars,
                   auxVars>>

NextHistory ==
    \/ \E action_type \in ActionTypes : \E now \in Times :
           \E raises \in BOOLEAN : AddHistoryEntry(action_type, now, raises)
    \/ \E limit \in Limits : \E action_type \in ActionTypes \cup {NoFilter} :
           \E raises \in BOOLEAN : GetHistory(limit, action_type, raises)
    \/ \E readRaises \in BOOLEAN : \E failing \in SUBSET (1..MaxEntries) :
           ClearHistory(readRaises, failing)

\* HistoryService, with or without a FirebaseService.
SpecHistory == InitHistory /\ [][NextHistory]_vars

NextEvents ==
    \/ \E event_type \in EventTypes : \E now \in Times :
           \E raises \in BOOLEAN : RecordTaskEvent(event_type, now, raises)
    \/ \E raises \in BOOLEAN : GetTasksHistory(raises)
    \/ \E readRaises \in BOOLEAN : \E failing \in SUBSET (1..MaxIds) :
           ClearTasksHistory(readRaises, failing)
    \/ \E plan_data \in SavedPlans : \E now \in Times :
           \E readRaises, raises \in BOOLEAN :
               SavePlanToHistory(plan_data, now, readRaises, raises)
    \/ \E readRaises \in BOOLEAN : \E failing \in SUBSET (1..MaxIds) :
           ClearPlansHistory(readRaises, failing)
    \/ \E indice \in 0..MaxPlans : \E raises \in BOOLEAN :
           RemoverPlanoDoHistorico(indice, raises)

\* The task events and plans histories of the module pages.
SpecEvents == InitEvents /\ [][NextEvents]_vars

----------------------------------------------------------------------------
(* SpecQuery: get_history over stores of every size up to MaxStored *)

\* Entries of the stores a query is run on.
MaxStored == 22

\* What an entry can hold: its type and the time it was recorded at.
EntryKinds == ActionTypes \X Times

\* The store of n entries, ids in the order of their writes, the kinds
\* following the pattern.  The stores are local ones, whose read never
\* raises; Firestore answers a query the same way when its read returns.
StoreOf(n, pattern) ==
    [d \in 1..n |->
        [action_type |-> pattern[(d % 2) + 1][1], description |-> "descricao",
         timestamp |-> isoformat(pattern[(d % 2) + 1][2])]]

InitQuery ==
    /\ session_state = FreshSession
    /\ \E n \in 0..MaxStored : \E pattern \in EntryKinds \X EntryKinds :
           /\ collections = [EmptyCollections EXCEPT
                                !.historico = StoreOf(n, pattern)]
           /\ nextId = n
    /\ storage = <<>>
    /\ is_offline_mode = TRUE
    /\ firebase = TRUE
    /\ firestore_service = "firebase"
    /\ lastTask = [op |-> "init", id |-> 0, res |-> FALSE]
    /\ lastPlan = LastPlanOp("init", FALSE, 0, "none", 0, 0, 0)
    /\ lastHist = LastHistOp("init", FALSE, 0, "", <<>>, 0)
    /\ InitRegistry
    /\ InitConcIdle
    /\ InitAuxIdle

NextQuery ==
    \E limit \in Limits : \E action_type \in ActionTypes \cup {NoFilter} :
        \E raises \in BOOLEAN : GetHistory(limit, action_type, raises)

SpecQuery == InitQuery /\ [][NextQuery]_vars

----------------------------------------------------------------------------
(* Claims about the histories *)

\* The reading of the clock a timestamp was formatted from.
TimeOf(timestamp) == CHOOSE t \in Times : isoformat(t) = timestamp

\* t is earlier than u.
TimeLess(t, u) == t[1] < u[1] \/ (t[1] = u[1] /\ t[2] < u[2])

\* C16: a history query returns the entries most recent first, whatever
\* the order they were written in.
C16_MostRecentFirst ==
    lastHist.op = "get_history"
        => \A i, j \in 1..Len(lastHist.result) :
               i < j => ~TimeLess(TimeOf(lastHist.result[i].timestamp),
                                  TimeOf(lastHist.result[j].timestamp))

\* A query returned three entries of three different times, written
\* neither earliest first nor latest first.
C16_OutOfOrderInsertions ==
    /\ lastHist.op = "get_history"
    /\ Len(lastHist.result) = 3
    /\ TimeLess(TimeOf(lastHist.result[2].timestamp),
                TimeOf(lastHist.result[1].timestamp))
    /\ TimeLess(TimeOf(lastHist.result[3].timestamp),
                TimeOf(lastHist.result[2].timestamp))
    /\ lastHist.result[1].id < lastHist.result[3].id
    /\ lastHist.result[3].id < lastHist.result[2].id

\* The stored entries a query with the given type filter is about.
Matching(action_type) ==
    {d \in DOMAIN collections.historico :
        action_type = NoFilter
        \/ collections.historico[d].action_type = action_type}

\* C17: a query with a type filter returns only entries of that type, the
\* limit most recent of them (fewer only when fewer match), and a query
\* without a limit returns at most 20 entries.
C17_FilterThenLimit ==
    (lastHist.op = "get_history" /\ lastHist.res)
        => LET result == lastHist.result
               matching == Matching(lastHist.action_type)
               returned == {result[i].id : i \in 1..Len(result)}
           IN /\ returned \subseteq matching
              /\ Len(result) = IF lastHist.limit < Cardinality(matching)
                               THEN lastHist.limit
                               ELSE Cardinality(matching)
              /\ \A i \in 1..Len(result) : \A d \in matching \ returned :
                     ~TimeLess(TimeOf(result[i].timestamp),
                               TimeOf(collections.historico[d].timestamp))
              /\ lastHist.limit = DefaultLimit => Len(result) <= 20

\* A query by type without a limit on a store of more than 20 entries,
\* the latest of which is of another type, returned as many entries as the
\* limit allows.
C17_LimitReachedPastNewerOthers ==
    /\ lastHist.op = "get_history"
    /\ lastHist.res
    /\ lastHist.action_type # NoFilter
    /\ lastHist.limit = DefaultLimit
    /\ Len(lastHist.result) = DefaultLimit
    /\ Cardinality(DOMAIN collections.historico) > 20
    /\ \E d \in DOMAIN collections.historico :
           /\ collections.historico[d].action_type # lastHist.action_type
           /\ TimeLess(TimeOf(lastHist.result[1].timestamp),
                       TimeOf(collections.historico[d].timestamp))

\* C18: recording an entry reports success and the entry is returned by a
\* following query, with or without a store and whether or not its write
\* fails.
C18_RecordAlwaysSucceedsLocally ==
    lastHist.op = "add_history_entry"
        => /\ lastHist.res
           /\ Len(AllHistory) = lastHist.before + 1

\* C19: clear returns true only when no entry is left in the store.
C19_ClearTrueOnlyWhenAllRemoved ==
    (lastHist.op = "clear_history" /\ lastHist.res)
        => DOMAIN collections.historico = {}

\* The elements of a list.
Elements(list) == {list[i] : i \in 1..Len(list)}

\* C20: but for the bulk clears, no operation removes or changes an entry
\* of a history, in the session or in the store.
C20_AppendOnly ==
    [][lastHist'.op \notin {"clear_tasks_history", "clear_plans_history"}
          => /\ \A c \in {"tarefas_historico", "planos_historico"} :
                    \A d \in DOMAIN collections[c] :
                        /\ d \in DOMAIN collections'[c]
                        /\ collections'[c][d] = collections[c][d]
             /\ Elements(tasks_history(session_state))
                    \subseteq Elements(tasks_history(session_state'))
             /\ Len(tasks_history(session_state'))
                    >= Len(tasks_history(session_state))
             /\ Elements(Get(session_state, "planos_historico"))
                    \subseteq Elements(Get(session_state', "planos_historico"))
             /\ Len(Get(session_state', "planos_historico"))
                    >= Len(Get(session_state, "planos_historico"))]_vars

\* C27: a task made of a JSON plan entry that gives no priority, no
\* description and no subtasks has priority "média", the empty description
\* and an empty list of subtasks (the field is there); every task and
\* subtask made starts not completed.
C27_DefaultsOfCreatedTasks ==
    \A i \in DOMAIN Get(session_state, "tasks") :
        LET tarefa == Get(session_state, "tasks")[i]
        IN /\ tarefa.prioridade = "média"
           /\ tarefa.descricao = ""
           /\ ~tarefa.completed
           /\ "subtarefas" \in DOMAIN tarefa
           /\ \A j \in DOMAIN tarefa.subtarefas :
                  ~tarefa.subtarefas[j].completed

----------------------------------------------------------------------------
(* Documents as Python objects: the dicts and lists the local stores hold *)

\* Allocating obj: the heap with the object appended, and its address.
Alloc(h, obj) == [heap |-> Append(h, obj), ref |-> Len(h) + 1]

\* The dict criar_tarefas_do_plano builds for a tarefa with one subtarefa:
\* the subtarefa dict, the list holding it and the tarefa dict holding the
\* list.
NewTarefa(h, id) ==
    LET s == Alloc(h, [titulo |-> "s", completed |-> FALSE])
        l == Alloc(s.heap, <<s.ref>>)
    IN Alloc(l.heap, [id |-> id, titulo |-> "t", completed |-> FALSE,
                      subtarefas |-> l.ref])

\* The same dict before a store gave it an id.
NewData(h) ==
    LET s == Alloc(h, [titulo |-> "s", completed |-> FALSE])
        l == Alloc(s.heap, <<s.ref>>)
    IN Alloc(l.heap, [titulo |-> "t", completed |-> FALSE,
                      subtarefas |-> l.ref])

\* dict.copy(): a new dict with the same values, so a list held by the
\* original is held by the copy too.
dict_copy(h, ref) == Alloc(h, h[ref])

\* What a reader sees of the dict at ref: its fields, the list of
\* subtarefas followed to the dicts it holds.
Deep(h, ref) ==
    IF "subtarefas" \in DOMAIN h[ref]
    THEN [h[ref] EXCEPT
              !.subtarefas = [j \in DOMAIN h[h[ref].subtarefas] |->
                                  h[h[h[ref].subtarefas][j]]]]
    ELSE h[ref]

\* LocalStorageService.add_document: data.copy() is stored under a new id.
LocalStorageService_add_document(h, store, doc_id, data_ref) ==
    LET c == dict_copy(h, data_ref)
    IN [heap |-> c.heap, store |-> DictSet(store, doc_id, c.ref), id |-> doc_id]

RECURSIVE CopyEach(_, _, _, _)
\* The loop of LocalStorageService.get_documents (lines 54-58) over the
\* ids not yet visited: doc_data = data.copy(); doc_data["id"] = doc_id.
CopyEach(h, store, ids, result) ==
    IF ids = {} THEN [heap |-> h, result |-> result]
    ELSE LET doc_id == CHOOSE d \in ids : \A e \in ids : d <= e
             c == Alloc(h, DictSet(h[store[doc_id]], "id", doc_id))
         IN CopyEach(c.heap, store, ids \ {doc_id}, Append(result, c.ref))

\* LocalStorageService.get_documents: one copy per stored document.
LocalStorageService_get_documents(h, store) ==
    CopyEach(h, store, DOMAIN store, <<>>)

\* LocalStorageService.update_document: False when the id is not stored,
\* else each named field is assigned into the stored dict.
LocalStorageService_update_document(h, store, document_id, data) ==
    IF document_id \notin DOMAIN store
    THEN [heap |-> h, res |-> FALSE]
    ELSE [heap |-> [h EXCEPT ![store[document_id]] = DictMerge(@, data)],
          res |-> TRUE]

\* TaskStorageService.get_tasks, offline: st.session_state.tasks itself.
TaskStorageService_get_tasks(tasks) == tasks

\* task.get("id") == task_id
HasId(h, ref, task_id) == "id" \in DOMAIN h[ref] /\ h[ref].id = task_id

\* TaskStorageService.update_task, offline (lines 219-229): the first task
\* of the session list with this id is replaced by task_data.
TaskStorageService_update_task(h, tasks, task_id, data_ref) ==
    IF \E i \in DOMAIN tasks : HasId(h, tasks[i], task_id)
    THEN LET i == CHOOSE k \in DOMAIN tasks :
                      /\ HasId(h, tasks[k], task_id)
                      /\ \A m \in 1..(k - 1) : ~HasId(h, tasks[m], task_id)
         IN [tasks |-> [tasks EXCEPT ![i] = data_ref], res |-> TRUE]
    ELSE [tasks |-> tasks, res |-> FALSE]

\* The partial field maps a caller updates a document with.
PartialDatas == {[completed |-> TRUE], [titulo |-> "u"]}

----------------------------------------------------------------------------
(* SpecStore: the two local stores and a caller holding what it read *)

LastStoreOp(op, id, res, data) ==
    [op |-> op, id |-> id, res |-> res, data |-> data]

InitStore ==
    /\ heap = <<>>
    /\ fetched = <<>>
    /\ storage = <<>>
    /\ is_offline_mode = TRUE
    /\ nextId = 0
    /\ lastTask = LastStoreOp("init", 0, FALSE, <<>>)
    /\ lastGen = IdleGen
    /\ InitRegistry
    /\ InitConcIdle
    /\ InitPageIdle

StoreFrame ==
    <<is_offline_mode, collections, firebase, firestore_service, lastPlan,
      lastHist, lastGen, registryVars, concVars>>

\* TaskStorageService.add_task, offline, with the dict the caller built:
\* the dict itself is appended to the session list.
SessionAddTask ==
    /\ Len(session_state.tasks) < MaxTasks
    /\ Len(heap) + 3 <= MaxObjects
    /\ LET t == NewTarefa(heap, nextId + 1)
       IN /\ heap' = t.heap
          /\ session_state' = [session_state EXCEPT
                                   !.tasks = Append(@, t.ref)]
          /\ lastTask' = LastStoreOp("add_task", nextId + 1, TRUE, <<>>)
    /\ nextId' = nextId + 1
    /\ UNCHANGED <<storage, fetched, StoreFrame>>

SessionGetTasks ==
    /\ fetched' = TaskStorageService_get_tasks(session_state.tasks)
    /\ lastTask' = LastStoreOp("get_tasks", 0, TRUE, <<>>)
    /\ UNCHANGED <<heap, storage, session_state, nextId, StoreFrame>>

\* update_task with a partial field map.
SessionUpdateTask(task_id, data) ==
    /\ Len(heap) + 1 <= MaxObjects
    /\ LET d == Alloc(heap, data)
           r == TaskStorageService_update_task(d.heap, session_state.tasks,
                                               task_id, d.ref)
       IN /\ heap' = d.heap
          /\ session_state' = [session_state EXCEPT !.tasks = r.tasks]
          /\ lastTask' = LastStoreOp("update_task", task_id, r.res, data)
    /\ UNCHANGED <<storage, fetched, nextId, StoreFrame>>

\* LocalStorageService.add_document with the dict the caller built.
LocalAddDocument ==
    /\ Cardinality(DOMAIN storage) < MaxTasks
    /\ Len(heap) + 4 <= MaxObjects
    /\ LET d == NewData(heap)
           r == LocalStorageService_add_document(d.heap, storage, nextId + 1,
                                                 d.ref)
       IN /\ heap' = r.heap
          /\ storage' = r.store
          /\ lastTask' = LastStoreOp("add_document", r.id, TRUE, <<>>)
    /\ nextId' = nextId + 1
    /\ UNCHANGED <<session_state, fetched, StoreFrame>>

LocalGetDocuments ==
    /\ Len(heap) + Cardinality(DOMAIN storage) <= MaxObjects
    /\ LET r == LocalStorageService_get_documents(heap, storage)
       IN /\ heap' = r.heap
          /\ fetched' = r.result
    /\ lastTask' = LastStoreOp("get_documents", 0, TRUE, <<>>)
    /\ UNCHANGED <<storage, session_state, nextId, StoreFrame>>

LocalUpdateDocument(document_id, data) ==
    /\ LET r == LocalStorageService_update_document(heap, storage,
                                                    document_id, data)
       IN /\ heap' = r.heap
          /\ lastTask' = LastStoreOp("update_document", document_id, r.res,
                                     data)
    /\ UNCHANGED <<storage, session_state, fetched, nextId, StoreFrame>>

\* The caller changes document i of what it read in place, as
\* exibir_tarefa does: tarefa["completed"] = True (line 212) or
\* subtarefa["completed"] = True for the first subtarefa (line 198).
MutateFetched(i, nested) ==
    /\ i \in DOMAIN fetched
    /\ nested => "subtarefas" \in DOMAIN heap[fetched[i]]
    /\ LET target == IF nested THEN heap[heap[fetched[i]].subtarefas][1]
                     ELSE fetched[i]
       IN heap' = [heap EXCEPT ![target].completed = TRUE]
    /\ lastTask' = LastStoreOp("mutate", i, TRUE, <<>>)
    /\ UNCHANGED <<storage, session_state, fetched, nextId, StoreFrame>>

NextStore ==
    \/ SessionAddTask
    \/ SessionGetTasks
    \/ \E task_id \in 1..MaxTasks : \E data \in PartialDatas :
           SessionUpdateTask(task_id, data)
    \/ LocalAddDocument
    \/ LocalGetDocuments
    \/ \E document_id \in 1..MaxTasks : \E data \in PartialDatas :
           LocalUpdateDocument(document_id, data)
    \/ \E i \in 1..MaxTasks : \E nested \in BOOLEAN : MutateFetched(i, nested)

SpecStore == InitStore /\ [][NextStore]_vars

\* What the next read of the session store returns.
SessionView(h, tasks) == [i \in DOMAIN tasks |-> Deep(h, tasks[i])]

\* What the next read of the local store returns, by id.
LocalView(h, store) == [d \in DOMAIN store |-> Deep(h, store[d])]

\* C21: a successful update of a stored document with a partial field map
\* gives exactly the named fields their new values and leaves every other
\* field of that document, and every other document, as it was.
C21_UpdateMerges ==
    [][/\ (lastTask'.op = "update_document" /\ lastTask'.res)
          => LocalView(heap', storage') =
                 [LocalView(heap, storage) EXCEPT
                      ![lastTask'.id] = DictMerge(@, lastTask'.data)]
       /\ (lastTask'.op = "update_task" /\ lastTask'.res)
          => \A i \in DOMAIN session_state.tasks :
                 SessionView(heap', session_state'.tasks)[i] =
                     IF /\ HasId(heap, session_state.tasks[i], lastTask'.id)
                        /\ \A m \in 1..(i - 1) :
                               ~HasId(heap, session_state.tasks[m],
                                      lastTask'.id)
                     THEN DictMerge(SessionView(heap, session_state.tasks)[i],
                                    lastTask'.data)
                     ELSE SessionView(heap, session_state.tasks)[i]]_vars

\* C22: a change the caller makes in place to a document it read, the
\* completed flag of a nested subtarefa included, does not change what the
\* stores return on the next read.
C22_FetchedIsDetached ==
    [][lastTask'.op = "mutate"
          => /\ SessionView(heap', session_state'.tasks) =
                    SessionView(heap, session_state.tasks)
             /\ LocalView(heap', storage') = LocalView(heap, storage)]_vars

----------------------------------------------------------------------------
(* planning.py: a plan as text, read line by line.  A line is the sequence *)
(* of its characters.                                                      *)

\* Lines of the longest plan text.
MaxTextLines == 12

\* The cap on the collected lines (line 197) and the least number of lines
\* that is used as found (line 201).
SubtaskCap == 10
MinSubtasks == 3

RECURSIVE lstrip(_)
lstrip(line) ==
    IF line # <<>> /\ Head(line) = " " THEN lstrip(Tail(line)) ELSE line

RECURSIVE rstrip(_)
rstrip(line) ==
    IF line # <<>> /\ line[Len(line)] = " "
    THEN rstrip(SubSeq(line, 1, Len(line) - 1)) ELSE line

\* str.strip()
strip(line) == rstrip(lstrip(line))

\* str.startswith(c)
startswith(line, c) == line # <<>> /\ line[1] = c

\* str.isdigit() of one character
isdigit(c) == c \in {"0", "1", "2", "3", "4", "5", "6", "7", "8", "9"}

\* c in line[:3]
InFirst3(line, c) ==
    \E i \in 1..(IF Len(line) < 3 THEN Len(line) ELSE 3) : line[i] = c

\* line[line.find(c)+1:], c being in line
AfterFirst(line, c) ==
    LET i == CHOOSE k \in DOMAIN line :
                 line[k] = c /\ \A m \in 1..(k - 1) : line[m] # c
    IN SubSeq(line, i + 1, Len(line))

\* word in line
Contains(line, word) ==
    \E k \in 0..(Len(line) - Len(word)) :
        SubSeq(line, k + 1, k + Len(word)) = word

\* str.lower(), over the capitals the texts use.
lower(line) ==
    [i \in DOMAIN line |-> IF line[i] = "P" THEN "p"
                           ELSE IF line[i] = "N" THEN "n" ELSE line[i]]

\* The words of line 167.
TitleWords ==
    {<<"p", "l", "a", "n", "o">>,
     <<"p", "l", "a", "n", "e", "j", "a", "m", "e", "n", "t", "o">>,
     <<"p", "r", "o", "j", "e", "t", "o">>,
     <<"t", "a", "r", "e", "f", "a">>}

\* "Plano gerado pela IA"
DefaultTitle ==
    <<"P", "l", "a", "n", "o", " ", "g", "e", "r", "a", "d", "o", " ", "p",
      "e", "l", "a", " ", "I", "A">>

RECURSIVE title_candidates(_, _)
\* Lines 152-160 from line i on: the lines that do not start with a list
\* or heading mark and are longer than 5 characters.
title_candidates(lines, i) ==
    IF i > Len(lines) THEN <<>>
    ELSE LET line == strip(lines[i])
         IN (IF /\ line # <<>>
                /\ ~startswith(line, "-")
                /\ ~startswith(line, "*")
                /\ ~startswith(line, "#")
                /\ Len(line) > 5
             THEN <<line>> ELSE <<>>) \o title_candidates(lines, i + 1)

\* Lines 163-173: the first candidate holding one of the words, else the
\* first candidate, else the default title.
choose_title(candidates) ==
    LET HasWord(c) == \E w \in TitleWords : Contains(lower(c), w)
        withWord == Filter(candidates, HasWord)
    IN IF withWord # <<>> /\ withWord[1] # DefaultTitle THEN withWord[1]
       ELSE IF candidates # <<>> THEN candidates[1]
       ELSE DefaultTitle

RECURSIVE bullet_lines(_, _)
\* The first pass (lines 177-184) from line i on: the text after the mark
\* of each line that starts with "-" or "*", when longer than 3.
bullet_lines(lines, i) ==
    IF i > Len(lines) THEN <<>>
    ELSE LET line == strip(lines[i])
         IN (IF /\ startswith(line, "-") \/ startswith(line, "*")
                /\ Len(strip(Tail(line))) > 3
             THEN <<strip(Tail(line))>> ELSE <<>>)
            \o bullet_lines(lines, i + 1)

RECURSIVE numbered_lines(_, _)
\* The second pass (lines 187-194) from line i on: lines "1. text" and
\* "1) text", the text after the first "." (or else ")") when longer than 3.
numbered_lines(lines, i) ==
    IF i > Len(lines) THEN <<>>
    ELSE LET line == strip(lines[i])
             mark == IF InFirst3(line, ".") THEN "." ELSE ")"
         IN (IF /\ line # <<>>
                /\ isdigit(line[1])
                /\ Len(line) > 3
                /\ InFirst3(line, ".") \/ InFirst3(line, ")")
                /\ Len(strip(AfterFirst(line, mark))) > 3
             THEN <<strip(AfterFirst(line, mark))>> ELSE <<>>)
            \o numbered_lines(lines, i + 1)

\* subtask_lines after the two passes.
collect_subtask_lines(lines) ==
    bullet_lines(lines, 1) \o numbered_lines(lines, 1)

cap_subtask_lines_NoCap(subtask_lines) == subtask_lines

\* Lines 197-198: subtask_lines[:10] when there are more than 10.
cap_subtask_lines(subtask_lines) ==
    IF Len(subtask_lines) > SubtaskCap
    THEN Take(subtask_lines, SubtaskCap) ELSE subtask_lines

\* The three titles of lines 202-206.
GenericSubtasks ==
    <<
      <<"D", "e", "f", "i", "n", "i", "r", " ", "o", "b", "j", "e", "t",
        "i", "v", "o", "s", " ", "e", " ", "r", "e", "q", "u", "i", "s",
        "i", "t", "o", "s">>,
      <<"C", "o", "l", "e", "t", "a", "r", " ", "r", "e", "c", "u", "r",
        "s", "o", "s", " ", "n", "e", "c", "e", "s", "s", "á", "r", "i",
        "o", "s">>,
      <<"I", "m", "p", "l", "e", "m", "e", "n", "t", "a", "r", " ", "s",
        "o", "l", "u", "ç", "ã", "o">>
    >>

or_generic_OnlyWhenEmpty(subtask_lines) ==
    IF subtask_lines = <<>> THEN GenericSubtasks ELSE subtask_lines

\* Lines 201-206: fewer than 3 lines are replaced by the generic titles.
or_generic(subtask_lines) ==
    IF Len(subtask_lines) < MinSubtasks THEN GenericSubtasks
    ELSE subtask_lines

\* planning.create_tasks_from_plan on a plan text that is there: the title
\* and subtask titles it passes to TaskService.add_task_with_subtasks, and
\* that call's result.
planning_create_tasks_from_plan(plan_text, store, offline, next, failing) ==
    LET main_title == choose_title(title_candidates(plan_text, 1))
        subtask_lines ==
            or_generic(cap_subtask_lines(collect_subtask_lines(plan_text)))
        r == add_task_with_subtasks(store, offline, uuid4(next),
                                    Len(subtask_lines), failing)
    IN [res |-> r.res, store |-> r.store, title |-> main_title,
        subtask_titles |-> subtask_lines]

\* planning.generate_planning, from the model's response on: None when the
\* call raised, when the response is empty and when json.loads rejects it;
\* else the parsed plan with its creation time.
generate_planning(response, aiRaises) ==
    IF aiRaises \/ response = None \/ ~IsJson(response) THEN None
    ELSE response @@ [created_at |-> isoformat(PlanClock)]

----------------------------------------------------------------------------
(* SpecExtract: the planning page over plan texts of up to MaxTextLines    *)
(* lines                                                                   *)

\* What a line of a plan text is: a dash or star bullet, a line numbered
\* with "." or ")", a bullet too short to count, a title line with one of
\* the title words, a plain line.
TextLineKinds == {"dash", "star", "dot", "paren", "short", "title", "plain"}

\* The decimal digits of i.
NumChars(i) ==
    LET d == <<"0", "1", "2", "3", "4", "5", "6", "7", "8", "9">>
    IN IF i < 10 THEN <<d[i + 1]>> ELSE <<d[(i \div 10) + 1], d[(i % 10) + 1]>>

\* The text of the item on line i, different on each line.
Body(i) == <<"t", "x", "t">> \o NumChars(i)

\* Line i of a text, of the given kind.
MakeLine(kind, i) ==
    IF kind = "dash" THEN <<"-", " ">> \o Body(i)
    ELSE IF kind = "star" THEN <<" ", "*", " ">> \o Body(i) \o <<" ">>
    ELSE IF kind = "dot" THEN NumChars(i) \o <<".", " ">> \o Body(i)
    ELSE IF kind = "paren" THEN NumChars(i) \o <<")", " ">> \o Body(i)
    ELSE IF kind = "short" THEN <<"-", " ", "x">> \o NumChars(i)
    ELSE IF kind = "title" THEN <<"P", "l", "a", "n", "o", " ">> \o NumChars(i)
    ELSE <<"N", "o", "t", "a", "s", " ">> \o NumChars(i)

\* The text of n lines whose kinds repeat pattern.
TextOf(n, pattern) ==
    [i \in 1..n |-> MakeLine(pattern[((i - 1) % Len(pattern)) + 1], i)]

TextPatterns == UNION {[1..k -> TextLineKinds] : k \in 1..2}

InitExtract ==
    /\ \E n \in 0..MaxTextLines : \E pattern \in TextPatterns :
           session_state = [plan_result |-> TextOf(n, pattern), tasks |-> <<>>]
    /\ is_offline_mode \in BOOLEAN
    /\ storage = <<>>
    /\ nextId = 0
    /\ lastTask = LastTaskOp("init", 0, FALSE)
    /\ lastGen = IdleGen
    /\ heap = <<>>
    /\ fetched = <<>>
    /\ InitRegistry
    /\ InitConcIdle
    /\ collections = EmptyCollections
    /\ firebase = TRUE
    /\ firestore_service = "firebase"
    /\ lastPlan = LastPlanOp("init", FALSE, 0, "none", 0, 0, 0)
    /\ lastHist = LastHistOp("init", FALSE, 0, "", <<>>, 0)

ExtractFrame ==
    <<is_offline_mode, lastTask, collections, firebase, firestore_service,
      lastPlan, lastHist, heap, fetched, registryVars, concVars>>

\* The "Gerar Plano" button (lines 261-264): generate_planning, whose
\* result the page drops.
GeneratePlanning(response, aiRaises) ==
    /\ lastGen' = [op |-> "generate_planning",
                   response |-> IF aiRaises THEN None ELSE response,
                   result |-> generate_planning(response, aiRaises)]
    /\ UNCHANGED <<session_state, storage, nextId, ExtractFrame>>

\* The "Criar Tarefas a partir deste Plano" button (lines 271-283), shown
\* while there is a plan: create_tasks_from_plan, and after its success the
\* plan is cleared.  failing holds the numbers of the store writes that
\* raise, 0 being the main task's.
CreateTasksButton(failing) ==
    /\ session_state.plan_result # <<>>
    /\ failing \in (IF is_offline_mode THEN {{}} ELSE {{}, {0}, {1}})
    /\ LET r == planning_create_tasks_from_plan(session_state.plan_result,
                    storage, is_offline_mode, nextId, failing)
       IN /\ storage' = r.store
          /\ nextId' = IF r.res THEN nextId + 1 + Len(r.subtask_titles)
                     ELSE nextId
          /\ session_state' = IF r.res
                              THEN [session_state EXCEPT !.plan_result = <<>>]
                              ELSE session_state
          /\ lastGen' = [op |-> "create_tasks_from_plan",
                         text |-> session_state.plan_result, res |-> r.res,
                         title |-> r.title,
                         subtask_titles |-> r.subtask_titles]
    /\ UNCHANGED ExtractFrame

\* What the model answers: nothing, a text that is not JSON, JSON without
\* "tarefas", a JSON plan of one tarefa.
Responses ==
    {None, NotJson, NoTarefas} \cup {p \in JsonPlans : Len(p.tarefas) = 1}

NextExtract ==
    \/ \E response \in Responses : \E aiRaises \in BOOLEAN :
           GeneratePlanning(response, aiRaises)
    \/ \E failing \in SUBSET {0, 1} : CreateTasksButton(failing)

SpecExtract == InitExtract /\ [][NextExtract]_vars

----------------------------------------------------------------------------
(* Claims about the planning page, checked under SpecExtract *)

\* C23: for a response that is not empty, plan extraction does not end in
\* failure: a response json.loads rejects still yields a plan.
C23_ExtractionNeverFails ==
    (lastGen.op = "generate_planning" /\ lastGen.response # None)
        => lastGen.result # None

\* The kind of line i of a text made by TextOf.
KindAt(text, i) == CHOOSE k \in TextLineKinds : text[i] = MakeLine(k, i)

\* The positions of the bullet lines and of the numbered lines whose item
\* is long enough to be used.
BulletAt(text) == {i \in DOMAIN text : KindAt(text, i) \in {"dash", "star"}}

NumberedAt(text) == {i \in DOMAIN text : KindAt(text, i) \in {"dot", "paren"}}

UsableAt(text) == BulletAt(text) \cup NumberedAt(text)

RECURSIVE Ascending(_)
\* The positions of a set, lowest first.
Ascending(positions) ==
    IF positions = {} THEN <<>>
    ELSE LET first == CHOOSE i \in positions : \A j \in positions : i <= j
         IN <<first>> \o Ascending(positions \ {first})

Bodies(positions) == [k \in DOMAIN positions |-> Body(positions[k])]

\* The items in the order the scan meets them: the pass over the bullet
\* lines, then the pass over the numbered lines.
ScanOrder(text) ==
    Bodies(Ascending(BulletAt(text))) \o Bodies(Ascending(NumberedAt(text)))

\* The items in the order of their lines in the text.
DocumentOrder(text) == Bodies(Ascending(UsableAt(text)))

Created == lastGen.op = "create_tasks_from_plan"

\* C24: the subtask titles made of a plan text are never more than 10,
\* however many bullet and numbered lines the text has, and of more than 10
\* usable lines the 10 kept are the first 10 the scan met.
C24_AtMostTenSubtasks ==
    Created
        => /\ Len(lastGen.subtask_titles) <= 10
           /\ Cardinality(UsableAt(lastGen.text)) > 10
                  => lastGen.subtask_titles = Take(ScanOrder(lastGen.text), 10)

\* Tasks were made of a text with more than 10 usable lines, bullets and
\* numbered lines both.
C24_Witness ==
    /\ Created
    /\ lastGen.res
    /\ Cardinality(UsableAt(lastGen.text)) > 10
    /\ BulletAt(lastGen.text) # {}
    /\ NumberedAt(lastGen.text) # {}
    /\ Len(lastGen.subtask_titles) = 10

C26_DocumentOrder ==
    (Created /\ Cardinality(UsableAt(lastGen.text)) >= 3)
        => lastGen.subtask_titles = Take(DocumentOrder(lastGen.text), 10)

----------------------------------------------------------------------------
(* Text generation: the calls a request makes to the model *)

\* Calls to the model whose outcome a run fixes in advance.
MaxCalls == 4

\* What a call to model.generate_content does: it answers, or it raises an
\* error about tokens or limits, about authentication, or another one.
Outcomes == {"ok", "token", "authentication", "other"}

GenResult(calls, res) == [calls |-> calls, res |-> res]

\* AIService.run_flow without streaming, outcomes[k] being what the k-th
\* call to the model does: None when the service is not initialized; one
\* call; after an error about tokens or limits on a request with an image,
\* one more call with a smaller image; any other error ends the request.
run_flow(is_initialized, image, outcomes) ==
    IF ~is_initialized THEN GenResult(<<>>, "none")
    ELSE LET first == IF image THEN "image" ELSE "text"
         IN IF outcomes[1] = "ok" THEN GenResult(<<first>>, "text")
            ELSE IF image /\ outcomes[1] = "token"
            THEN GenResult(<<first, "smaller_image">>,
                           IF outcomes[2] = "ok" THEN "text" ELSE "error")
            ELSE GenResult(<<first>>, "error")

RECURSIVE gemini_generate_text(_, _, _, _)
\* GeminiService.generate_text from call number k on, with the key in use:
\* "none", "own" or "backup".  With an image, any error of the first call
\* is followed by a call with the text alone; an authentication error that
\* leaves the try is followed, unless the key is the backup key, by
\* generate_text again under the backup key.
gemini_generate_text(api_key, image, outcomes, k) ==
    IF api_key = "none" THEN GenResult(<<>>, "error")
    ELSE LET withImage == image /\ outcomes[k] # "ok"
             calls == IF ~image THEN <<"text">>
                      ELSE IF withImage THEN <<"image", "text">>
                      ELSE <<"image">>
             final == outcomes[k + Len(calls) - 1]
         IN IF final = "ok" THEN GenResult(calls, "text")
            ELSE IF final = "authentication" /\ api_key # "backup"
            THEN LET r == gemini_generate_text("backup", image, outcomes,
                                               k + Len(calls))
                 IN GenResult(calls \o r.calls, r.res)
            ELSE GenResult(calls, "error")

----------------------------------------------------------------------------
(* SpecGen: text-generation requests, one at a time *)

LastGenOp(op, image, outcomes, r) ==
    [op |-> op, image |-> image, outcomes |-> outcomes, calls |-> r.calls,
     res |-> r.res]

\* A request not yet made: whether it carries an image, and what each call
\* to the model will do.
InitGen ==
    /\ \E image \in BOOLEAN : \E outcomes \in [1..MaxCalls -> Outcomes] :
           lastGen = [op |-> "request", image |-> image,
                      outcomes |-> outcomes]
    /\ heap = <<>>
    /\ fetched = <<>>
    /\ InitRegistry
    /\ InitConcIdle
    /\ InitTasksIdle
    /\ InitPageIdle

GenFrame == <<registryVars, concVars, taskVars, pageVars, heap, fetched>>

\* AIService.generate_text: the request runs as a flow.
RunFlow(is_initialized) ==
    /\ lastGen.op = "request"
    /\ lastGen' = LastGenOp("run_flow", lastGen.image, lastGen.outcomes,
                            run_flow(is_initialized, lastGen.image,
                                     lastGen.outcomes))
    /\ UNCHANGED GenFrame

\* GeminiService.generate_text
GenerateText(api_key) ==
    /\ lastGen.op = "request"
    /\ lastGen' = LastGenOp("generate_text", lastGen.image, lastGen.outcomes,
                            gemini_generate_text(api_key, lastGen.image,
                                                 lastGen.outcomes, 1))
    /\ UNCHANGED GenFrame

NextGen ==
    \/ \E is_initialized \in BOOLEAN : RunFlow(is_initialized)
    \/ \E api_key \in {"none", "own", "backup"} : GenerateText(api_key)

SpecGen == InitGen /\ [][NextGen]_vars

\* C28: a text-generation request calls the model at most twice: the first
\* attempt and, only after an error about size or tokens on a request with
\* an image, one retry with a reduced image; any other error ends the
\* request with an error result and no further call.
C28_AtMostOneRetry ==
    lastGen.op \in {"run_flow", "generate_text"}
        => /\ Len(lastGen.calls) <= 2
           /\ Len(lastGen.calls) = 2
                  => /\ lastGen.image
                     /\ lastGen.outcomes[1] = "token"
                     /\ lastGen.calls[2] = "smaller_image"
           /\ (lastGen.calls # <<>> /\ lastGen.outcomes[1] \notin {"ok", "token"})
                  => Len(lastGen.calls) = 1 /\ lastGen.res = "error"

====
